---------------------------- MODULE Spec2Model ----------------------------
(***************************************************************************)
(* Model of src/components/pirate-game.tsx: the PirateGame component's     *)
(* session state, its entity stores, the per-frame gameLoop, the input     *)
(* handlers, startGame, the game-over grace timer and the run-end          *)
(* bookkeeping on the persistent profile.                                  *)
(*                                                                         *)
(* Numbers.  Lengths and speeds are kept in hundredths of a pixel          *)
(* (Px(1) = 100), so that 0.8, 2.8, 2.8 * 0.7 and 0.2 are exact integers.  *)
(* A Math.random() draw d in [0,1) is the integer 1000 * d (0..999), and   *)
(* what is made of it is cut to the hundredth.                              *)
(* Weights of the level patterns are kept in millionths.                   *)
(*                                                                         *)
(* React.  A handler reads the values of the render it was created in      *)
(* (its closure) and queues updates; the queued updater functions of one   *)
(* state hook are applied in the order they were queued, and an update     *)
(* queued from inside an updater (a render-phase update) is applied after  *)
(* every update queued by the handler itself.  The game-loop effect        *)
(* (1647-1656) requests one animation frame per render, so every tick      *)
(* runs with the closure of the latest render: an action below reads the   *)
(* unprimed variables as that closure and its primed variables are the     *)
(* next render, effects included.                                          *)
(*                                                                         *)
(* Left out: the clouds, the particles, backgroundX and the drawing calls  *)
(* (state that only the drawing code reads), and the catchphrase text.     *)
(***************************************************************************)
EXTENDS Integers, Sequences, FiniteSets, TLC

VARIABLES
    canvasSize,      \* useState(getResponsiveCanvasSize()), line 537: the width
    baseSpeed,       \* what getMobileSpeed() returns on this device
    playerProgress,  \* useState<PlayerProgress>, line 375
    gameState,       \* useState<GameState>, line 453
    player,          \* useState<Player>, line 518
    obstacles,       \* useState<Obstacle[]>, line 529
    coins,           \* useState<Coin[]>, line 530
    powerUps,        \* useState<PowerUp[]>, line 531
    projectiles,     \* useState<Projectile[]>, line 532
    animationFrame,  \* useState(0), line 536
    gameOverTimer,   \* the pending grace timeout and what its callback closes over
    runsStarted,     \* history: number of startGame calls
    spawned,         \* history: optional random spawns drawn so far
    ev,              \* history: what the latest tick of the run resolved
    slideTimers,     \* the pending slide reverts (setTimeout of line 560), oldest first
    slideEv,         \* history: slides accepted so far and the latest revert
    sel,             \* the latest call of the pattern generator and the selector
    storage,         \* localStorage's item "pirate-game-progress"
    shop,            \* history: the latest call of a shop handler and the profile it found
    boot,            \* the latest evaluation of the playerProgress initializer
    pull,            \* the latest evaluation of the coin updater on one coin
    frameRequests    \* the animation frames requested (1649) and neither run nor cancelled

vars == <<canvasSize, baseSpeed, playerProgress, gameState, player, obstacles,
          coins, powerUps, projectiles, animationFrame, gameOverTimer,
          runsStarted, spawned, ev, slideTimers, slideEv, sel, storage, shop, boot, pull,
          frameRequests>>

---------------------------------------------------------------------------
(* Bounds of the exploration *)

\* ticks of the game loop explored in one behaviour
MaxFrames == 4
\* startGame calls explored in one behaviour
MaxRuns == 2
\* optional random spawns (coin, power-up, banana) explored in one behaviour
MaxSpawns == 1
\* accepted slide inputs explored in one behaviour
MaxSlides == 2
\* ticks explored in one behaviour where a whole jump is followed
MaxJumpFrames == 40

---------------------------------------------------------------------------
(* Arithmetic helpers *)

Px(n) == n * 100

Max(a, b) == IF a >= b THEN a ELSE b

Min(a, b) == IF a <= b THEN a ELSE b

Abs(a) == IF a >= 0 THEN a ELSE -a

\* Math.floor of the quotient a / b (b > 0)
FloorDiv(a, b) == a \div b

RECURSIVE SumSeq(_)
SumSeq(s) == IF s = <<>> THEN 0 ELSE Head(s) + SumSeq(Tail(s))

Range(s) == {s[i] : i \in 1..Len(s)}

---------------------------------------------------------------------------
(* Constants of the program *)

CANVAS_WIDTH == 800
CANVAS_HEIGHT == 400
GRAVITY == 80
JUMP_FORCE == -1500
GAME_SPEED == 400

ObstacleTypes == {"crab", "barrel", "gap", "parrot", "moonwalk-crab", "treasure-chest"}

PowerUpTypes == <<"speed-boost", "coin-magnet", "extra-life">>

LEVEL_PATTERNS == <<
    [name |-> "Crab Invasion",
     weights |-> << <<"crab", 400000>>, <<"moonwalk-crab", 300000>>, <<"barrel", 100000>>,
                    <<"gap", 100000>>, <<"parrot", 50000>>, <<"treasure-chest", 50000>> >>],
    [name |-> "Parrot Paradise",
     weights |-> << <<"parrot", 400000>>, <<"barrel", 200000>>, <<"crab", 200000>>,
                    <<"gap", 100000>>, <<"moonwalk-crab", 50000>>, <<"treasure-chest", 50000>> >>],
    [name |-> "Barrel Bonanza",
     weights |-> << <<"barrel", 400000>>, <<"gap", 300000>>, <<"crab", 150000>>,
                    <<"parrot", 100000>>, <<"moonwalk-crab", 30000>>, <<"treasure-chest", 20000>> >>],
    [name |-> "Treasure Hunt",
     weights |-> << <<"treasure-chest", 300000>>, <<"crab", 250000>>, <<"barrel", 200000>>,
                    <<"gap", 150000>>, <<"parrot", 50000>>, <<"moonwalk-crab", 50000>> >>],
    [name |-> "Moonwalk Madness",
     weights |-> << <<"moonwalk-crab", 400000>>, <<"crab", 200000>>, <<"parrot", 200000>>,
                    <<"barrel", 100000>>, <<"gap", 50000>>, <<"treasure-chest", 50000>> >>],
    [name |-> "Gap Gauntlet",
     weights |-> << <<"gap", 400000>>, <<"barrel", 300000>>, <<"crab", 150000>>,
                    <<"parrot", 100000>>, <<"moonwalk-crab", 30000>>, <<"treasure-chest", 20000>> >>] >>

\* key.length of an obstacle type name
KeyLength(type) ==
    CASE type = "crab" -> 4
      [] type = "barrel" -> 6
      [] type = "gap" -> 3
      [] type = "parrot" -> 6
      [] type = "moonwalk-crab" -> 13
      [] type = "treasure-chest" -> 14

\* round(1000000 * Math.sin(seed * 0.01 + len) * 0.1) for the seeds 0..7 and
\* 314..321 and the five key lengths
SinAdjust(seed, len) ==
    LET low == CASE len = 3  -> <<14112, 13121, 12129, 11136, 10142, 9146, 8150, 7153>>
                 [] len = 4  -> <<-75680, -76330, -76972, -77607, -78234, -78853, -79464, -80067>>
                 [] len = 6  -> <<-27942, -26980, -26016, -25049, -24080, -23108, -22134, -21157>>
                 [] len = 13 -> <<42017, 42922, 43823, 44720, 45612, 46500, 47383, 48261>>
                 [] len = 14 -> <<99061, 99193, 99314, 99426, 99528, 99620, 99702, 99775>>
        high == CASE len = 3  -> <<-14270, -13279, -12287, -11294, -10300, -9305, -8309, -7312>>
                  [] len = 4  -> <<75576, 76227, 76871, 77506, 78134, 78754, 79367, 79971>>
                  [] len = 6  -> <<28094, 27133, 26169, 25203, 24234, 23263, 22289, 21313>>
                  [] len = 13 -> <<-41872, -42778, -43680, -44577, -45470, -46358, -47242, -48121>>
                  [] len = 14 -> <<-99039, -99172, -99296, -99409, -99513, -99606, -99690, -99764>>
    IN  IF seed <= 7 THEN low[seed + 1] ELSE high[seed - 313]

\* round(100 * Math.sin(frame * 0.05) * 30): the parrots' bobbing, for the
\* frames 0..24
SinBob(frame) ==
    <<0, 150, 300, 448, 596, 742, 887, 1029, 1168, 1305, 1438, 1568, 1694,
      1816, 1933, 2045, 2152, 2254, 2350, 2440, 2524, 2602, 2674, 2738, 2796>>[frame + 1]

---------------------------------------------------------------------------
(* The viewport sizing collaborator *)

\* isMobile(): a narrow window or a mobile user agent
isMobile(dev) == dev.screenWidth <= 768 \/ dev.mobileAgent

\* getResponsiveCanvasSize().width, in pixels.  k is the percentage of the
\* screen height the canvas may take; the aspect ratio is 800 / 400 = 2, so
\* height > maxHeight reads maxWidth / 2 > screenHeight * k / 100.
getResponsiveCanvasSize(dev) ==
    IF isMobile(dev)
    THEN LET k == IF dev.screenWidth <= 480 THEN 15
                  ELSE IF dev.screenWidth <= 768 THEN 20 ELSE 25
             cap == IF dev.screenWidth <= 480 THEN 280
                    ELSE IF dev.screenWidth <= 768 THEN 320 ELSE 400
             maxWidth == Min(dev.screenWidth - 16, cap)
         IN  IF maxWidth * 100 > 2 * dev.screenHeight * k
             THEN FloorDiv(2 * dev.screenHeight * k, 100)
             ELSE maxWidth
    ELSE CANVAS_WIDTH

\* getMobileSpeed(): GAME_SPEED * 0.7 on mobile
getMobileSpeed(dev) == IF isMobile(dev) THEN (GAME_SPEED * 7) \div 10 ELSE GAME_SPEED

\* The devices explored: a phone held sideways (568 x 320) and a desktop window
Devices == { [screenWidth |-> 568, screenHeight |-> 320, mobileAgent |-> TRUE],
             [screenWidth |-> 1280, screenHeight |-> 800, mobileAgent |-> FALSE] }

---------------------------------------------------------------------------
(* Procedural pattern generator and weighted obstacle selector *)

\* Math.floor(((seed * 0.1) % 1) * 10) in double arithmetic: the last digit of
\* the seed for every seed of 0..7 and 314..321
Variant(seed) == seed % 10

generateAILevelPatternFirst(seed) ==
    [name |-> [base |-> LEVEL_PATTERNS[1].name, variant |-> Variant(seed)],
     weights |-> LEVEL_PATTERNS[1].weights]

\* generateAILevelPattern(seed): the name is the base pattern's name and the
\* variant number; the weights are the base pattern's entries, in its own key
\* order, each adjusted by sin(seed * 0.01 + key.length) * 0.1 and floored at
\* 0.01 (in millionths)
generateAILevelPattern(seed) ==
    LET basePattern == LEVEL_PATTERNS[(seed % Len(LEVEL_PATTERNS)) + 1]
    IN  [name |-> [base |-> basePattern.name, variant |-> Variant(seed)],
         weights |-> [i \in 1..Len(basePattern.weights) |->
                        <<basePattern.weights[i][1],
                          Max(10000, basePattern.weights[i][2]
                                     + SinAdjust(seed, KeyLength(basePattern.weights[i][1])))>>]]

SelectFromLast(weights, i, cumulativeWeight, rand) ==
    LET reach(k) == SumSeq([j \in 1..k |-> weights[j][2]])
        hit == {k \in i..Len(weights) : rand * 1000 <= cumulativeWeight + reach(k) - reach(i - 1)}
    IN  IF hit = {} THEN weights[Len(weights)][1]
        ELSE weights[CHOOSE k \in hit : \A h \in hit : k <= h][1]

\* The loop of generateObstacle (616-625) from entry i on, with the weight
\* accumulated so far; rand is the draw in thousandths.  No entry reached:
\* selectedType keeps its initial value "crab".
RECURSIVE SelectFrom(_, _, _, _)
SelectFrom(weights, i, cumulativeWeight, rand) ==
    IF i > Len(weights) THEN "crab"
    ELSE LET cum == cumulativeWeight + weights[i][2]
         IN  IF rand * 1000 <= cum THEN weights[i][1]
             ELSE SelectFrom(weights, i + 1, cum, rand)

currentPatternOfLevelSeed(levelSeed, score) ==
    LET base == LEVEL_PATTERNS[((levelSeed + FloorDiv(score, 500)) % Len(LEVEL_PATTERNS)) + 1]
        own == generateAILevelPattern(levelSeed)
    IN  [name |-> [base |-> base.name, variant |-> own.name.variant],
         weights |-> [i \in 1..Len(base.weights) |->
                        <<base.weights[i][1],
                          Max(10000, base.weights[i][2]
                                     + SinAdjust(levelSeed, KeyLength(base.weights[i][1])))>>]]

\* The pattern of the spawner, line 612
currentPattern(levelSeed, score) == generateAILevelPattern(levelSeed + FloorDiv(score, 500))

\* The label of the HUD, lines 1780 and 2115
patternLabel(levelSeed, score) == generateAILevelPattern(levelSeed + FloorDiv(score, 500)).name

selectedType(levelSeed, score, rand) ==
    SelectFrom(currentPattern(levelSeed, score).weights, 1, 0, rand)

\* generateObstacle(): draw.t selects the type, draw.x is the draw of line 628
\* and draw.y the draw of line 629 (made for a parrot only).  id and gen are
\* the identity of the object: gen counts the copies made of it.
generateObstacle(width, levelSeed, score, draw, id) ==
    LET type == selectedType(levelSeed, score, draw.t)
    IN  [id |-> id, gen |-> 0,
         x |-> Px(width) + (draw.x * 200) \div 10,
         y |-> IF type = "gap" THEN Px(332)
               ELSE IF type = "parrot" THEN Px(200) + (draw.y * 50) \div 10 ELSE Px(300),
         width |-> IF type = "gap" THEN Px(60)
                   ELSE IF type = "treasure-chest" THEN Px(40) ELSE Px(32),
         height |-> IF type = "gap" THEN Px(68)
                    ELSE IF type = "treasure-chest" THEN Px(28) ELSE Px(32),
         type |-> type]

\* generateCoin()
generateCoin(width, draw, id) ==
    [id |-> id, x |-> Px(width) + (draw.x * 300) \div 10, y |-> Px(200) + (draw.y * 100) \div 10,
     width |-> Px(16), height |-> Px(16), collected |-> FALSE]

\* generatePowerUp(): type = types[Math.floor(Math.random() * 3)]
generatePowerUp(width, draw, id) ==
    [id |-> id, x |-> Px(width) + (draw.x * 400) \div 10, y |-> Px(220) + (draw.y * 80) \div 10,
     width |-> Px(20), height |-> Px(20),
     type |-> PowerUpTypes[FloorDiv(draw.t * Len(PowerUpTypes), 1000) + 1],
     collected |-> FALSE]

---------------------------------------------------------------------------
(* The persistent profile *)

\* The five challenges of generateDailyChallenges
ChallengePool == <<
    [id |-> "coins-50", target |-> 50, type |-> "coins", reward |-> 25],
    [id |-> "score-1000", target |-> 1000, type |-> "score", reward |-> 50],
    [id |-> "survival-120", target |-> 120, type |-> "survival", reward |-> 40],
    [id |-> "enemies-10", target |-> 10, type |-> "enemies", reward |-> 30],
    [id |-> "coins-100", target |-> 100, type |-> "coins", reward |-> 75] >>

\* generateDailyChallenges(): the first three of the shuffled pool, pick being
\* the shuffle's first three positions
generateDailyChallenges(pick) ==
    [i \in 1..3 |->
        [id |-> ChallengePool[pick[i]].id, target |-> ChallengePool[pick[i]].target,
         type |-> ChallengePool[pick[i]].type, reward |-> ChallengePool[pick[i]].reward,
         progress |-> 0, completed |-> FALSE]]

\* The upgrade list of the default profile (407-444); the speed effect 0.2 is
\* kept in thousandths
DefaultShipUpgrades == <<
    [id |-> "hull", cost |-> 50, maxLevel |-> 3, currentLevel |-> 0,
     effect |-> [type |-> "starting-lives", value |-> 1]],
    [id |-> "sails", cost |-> 75, maxLevel |-> 3, currentLevel |-> 0,
     effect |-> [type |-> "speed", value |-> 200]],
    [id |-> "compass", cost |-> 100, maxLevel |-> 3, currentLevel |-> 0,
     effect |-> [type |-> "coin-magnet", value |-> 20]],
    [id |-> "crew", cost |-> 150, maxLevel |-> 2, currentLevel |-> 0,
     effect |-> [type |-> "lives", value |-> 1]] >>

\* generatePirateOutfits() (334-369); name, description and parts are texts
\* that only the drawing code and the panel read
generatePirateOutfits == <<
    [id |-> "default", cost |-> 0, unlocked |-> TRUE],
    [id |-> "fancy", cost |-> 100, unlocked |-> FALSE],
    [id |-> "ghost", cost |-> 200, unlocked |-> FALSE],
    [id |-> "royal", cost |-> 500, unlocked |-> FALSE] >>

\* new Date().toDateString() on the day the component is constructed, and on
\* the day before
Today == "Fri Nov 06 2026"

Yesterday == "Thu Nov 05 2026"

\* The profile built when nothing is stored (397-445), on the day today
DefaultProgressOn(pick, today) ==
    [totalCoins |-> 0, gamesPlayed |-> 0, bestScore |-> 0,
     dailyChallenges |-> generateDailyChallenges(pick),
     lastChallengeReset |-> today,
     pirateOutfits |-> generatePirateOutfits,
     selectedOutfit |-> "default",
     totalEnemiesDefeated |-> 0,
     totalSurvivalTime |-> 0,
     shipUpgrades |-> DefaultShipUpgrades]

DefaultProgress(pick) == DefaultProgressOn(pick, Today)

\* A profile read back from the store (377-393) on the day it was saved,
\* after five runs of the day that ended with the scores 199, 199, 199, 200,
\* 200 and 9 coins each: the challenges carry the sums (no run adds to an
\* "enemies" challenge), and every run was counted by the game loop and by
\* the grace timer.
StoredProgress(pick) ==
    LET fresh == DefaultProgress(pick)
        carried(c) == CASE c.type = "score" -> 997
                        [] c.type = "coins" -> 45
                        [] c.type = "survival" -> 97
                        [] c.type = "enemies" -> 0
    IN  [fresh EXCEPT
            !.totalCoins = 90,
            !.gamesPlayed = 10,
            !.bestScore = 200,
            !.totalSurvivalTime = 97,
            !.dailyChallenges =
                [i \in 1..3 |->
                    [fresh.dailyChallenges[i] EXCEPT
                        !.progress = carried(fresh.dailyChallenges[i])]]]

\* A profile read back from the store whose owner bought the hull upgrade
\* twice on an earlier day: a run starts with 3 + 2 lives
UpgradedProgress(pick) ==
    LET fresh == DefaultProgress(pick)
    IN  [fresh EXCEPT
            !.totalCoins = 20,
            !.gamesPlayed = 24,
            !.bestScore = 310,
            !.totalSurvivalTime = 260,
            !.shipUpgrades = [i \in 1..Len(@) |->
                                IF @[i].id = "hull" THEN [@[i] EXCEPT !.currentLevel = 2]
                                ELSE @[i]]]

\* A profile read back from the store after sixty runs: the sails bought to
\* their last level, the compass twice, and 460 coins in hand
RichProgress(pick) ==
    LET fresh == DefaultProgress(pick)
    IN  [fresh EXCEPT
            !.totalCoins = 460,
            !.gamesPlayed = 60,
            !.bestScore = 900,
            !.totalSurvivalTime = 2100,
            !.shipUpgrades = [i \in 1..Len(@) |->
                                IF @[i].id = "sails" THEN [@[i] EXCEPT !.currentLevel = 3]
                                ELSE IF @[i].id = "compass"
                                     THEN [@[i] EXCEPT !.currentLevel = 2]
                                ELSE @[i]]]

\* The profiles the component is constructed with: on the phone nothing
\* stored or one of the two stored profiles, on the desktop nothing stored
\* (with the other shuffle of the challenges)
InitialProfiles(dev) ==
    IF dev.mobileAgent
    THEN { DefaultProgress(<<1, 2, 3>>), StoredProgress(<<1, 2, 3>>),
           UpgradedProgress(<<4, 5, 2>>) }
    ELSE { DefaultProgress(<<4, 5, 2>>) }

\* calculateShipBoosts(upgrades), folded from entry i on
RECURSIVE BoostsFrom(_, _, _)
BoostsFrom(upgrades, i, boosts) ==
    IF i > Len(upgrades) THEN boosts
    ELSE LET upgrade == upgrades[i]
             effectValue == upgrade.currentLevel * upgrade.effect.value
             next == CASE upgrade.effect.type = "speed" ->
                            [boosts EXCEPT !.speedMultiplier = @ + effectValue]
                       [] upgrade.effect.type = "lives" ->
                            [boosts EXCEPT !.extraLives = @ + effectValue]
                       [] upgrade.effect.type = "coin-magnet" ->
                            [boosts EXCEPT !.coinMagnetRange = @ + effectValue]
                       [] upgrade.effect.type = "starting-lives" ->
                            [boosts EXCEPT !.startingLives = @ + effectValue]
         IN  BoostsFrom(upgrades, i + 1, next)

calculateShipBoosts(upgrades) ==
    BoostsFrom(upgrades, 1,
               [speedMultiplier |-> 1000, extraLives |-> 0,
                coinMagnetRange |-> 0, startingLives |-> 0])

---------------------------------------------------------------------------
(* The shop: the setPlayerProgress updaters of the panels *)

\* The first entry of a list with the given id, 0 when there is none
\* (Array.prototype.find)
FindById(list, id) ==
    LET found == {i \in 1..Len(list) : list[i].id = id}
    IN  IF found = {} THEN 0 ELSE CHOOSE i \in found : \A j \in found : i <= j

purchaseUpgradeUnchecked(prev, upgradeId) ==
    LET i == FindById(prev.shipUpgrades, upgradeId)
    IN  IF i = 0 THEN prev
        ELSE [prev EXCEPT
                !.totalCoins = @ - prev.shipUpgrades[i].cost
                                   * (prev.shipUpgrades[i].currentLevel + 1),
                !.shipUpgrades = [j \in 1..Len(@) |->
                                    IF @[j].id = upgradeId
                                    THEN [@[j] EXCEPT !.currentLevel = @ + 1]
                                    ELSE @[j]]]

\* The updater of purchaseUpgrade(upgradeId) (753-769)
purchaseUpgrade(prev, upgradeId) ==
    LET i == FindById(prev.shipUpgrades, upgradeId)
    IN  IF i = 0 THEN prev
        ELSE LET upgrade == prev.shipUpgrades[i]
                 cost == upgrade.cost * (upgrade.currentLevel + 1)
             IN  IF upgrade.currentLevel >= upgrade.maxLevel THEN prev
                 ELSE IF prev.totalCoins < cost THEN prev
                 ELSE [prev EXCEPT
                         !.totalCoins = prev.totalCoins - cost,
                         !.shipUpgrades = [j \in 1..Len(@) |->
                                             IF @[j].id = upgradeId
                                             THEN [@[j] EXCEPT !.currentLevel = @ + 1]
                                             ELSE @[j]]]

purchaseOutfitAgain(prev, outfitId) ==
    LET i == FindById(prev.pirateOutfits, outfitId)
    IN  IF i = 0 \/ prev.totalCoins < prev.pirateOutfits[i].cost THEN prev
        ELSE [prev EXCEPT
                !.totalCoins = prev.totalCoins - prev.pirateOutfits[i].cost,
                !.pirateOutfits = [j \in 1..Len(@) |->
                                     IF @[j].id = outfitId
                                     THEN [@[j] EXCEPT !.unlocked = TRUE] ELSE @[j]]]

\* The updater of purchaseOutfit(outfitId) (791-800)
purchaseOutfit(prev, outfitId) ==
    LET i == FindById(prev.pirateOutfits, outfitId)
    IN  IF i = 0 THEN prev
        ELSE LET outfit == prev.pirateOutfits[i]
             IN  IF outfit.unlocked \/ prev.totalCoins < outfit.cost THEN prev
                 ELSE [prev EXCEPT
                         !.totalCoins = prev.totalCoins - outfit.cost,
                         !.pirateOutfits = [j \in 1..Len(@) |->
                                              IF @[j].id = outfitId
                                              THEN [@[j] EXCEPT !.unlocked = TRUE]
                                              ELSE @[j]]]

\* The updater of selectOutfit(outfitId) (804-807)
selectOutfit(prev, outfitId) == [prev EXCEPT !.selectedOutfit = outfitId]

---------------------------------------------------------------------------
(* Persistence: JSON.stringify, JSON.parse, the save effect and the         *)
(* playerProgress initializer                                               *)

\* The keys of a profile in the order the object literal of 397-445 creates
\* them; spreading a profile keeps that order
ProfileKeys ==
    <<"totalCoins", "gamesPlayed", "bestScore", "dailyChallenges", "lastChallengeReset",
      "pirateOutfits", "selectedOutfit", "totalEnemiesDefeated", "totalSurvivalTime",
      "shipUpgrades">>

\* JSON.stringify of an object: the text lists the keys the object has, in
\* order, each with its value.  The values of a profile are integers,
\* strings, booleans and arrays of objects of these, which the text carries
\* as they are.
JSON_stringify(value) ==
    LET Has(k) == k \in DOMAIN value
        keys == SelectSeq(ProfileKeys, Has)
    IN  [kind |-> "object", pairs |-> [i \in 1..Len(keys) |-> <<keys[i], value[keys[i]]>>]]

\* JSON.parse of a text: the object with the listed keys, a later pair
\* winning over an earlier one of the same key; the text "null" parses to
\* null; any text that is no JSON throws a SyntaxError
JSON_parse(text) ==
    IF text.kind = "object"
    THEN LET keys == {text.pairs[i][1] : i \in 1..Len(text.pairs)}
             Last(k) == CHOOSE i \in 1..Len(text.pairs) :
                           /\ text.pairs[i][1] = k
                           /\ \A j \in 1..Len(text.pairs) : text.pairs[j][1] = k => j <= i
         IN  [threw |-> FALSE, isNull |-> FALSE,
              value |-> [k \in keys |-> text.pairs[Last(k)][2]]]
    ELSE IF text.kind = "null"
    THEN [threw |-> FALSE, isNull |-> TRUE, value |-> [k \in {} |-> 0]]
    ELSE [threw |-> TRUE, isNull |-> FALSE, value |-> [k \in {} |-> 0]]

\* localStorage.getItem when nothing was stored, and stored texts that are
\* no JSON object
NoItem == [kind |-> "none"]

EmptyText == [kind |-> "empty"]

NullText == [kind |-> "null"]

BrokenText == [kind |-> "broken"]

SaveNothing(progress) == NoItem

\* The save effect (500-504), run after every render with a new profile
SaveProgress(progress) == JSON_stringify(progress)

\* obj with key k set to v
Put(obj, k, v) == [x \in DOMAIN obj \cup {k} |-> IF x = k THEN v ELSE obj[x]]

\* !obj[k] for a key holding a number, an array or nothing
Falsy(obj, k) == k \notin DOMAIN obj \/ obj[k] = 0

LoadKeepingChallenges(progress, today, pick) == progress

\* Lines 380-385: the challenges of another day, or of no day, are replaced
ResetChallenges(progress, today, pick) ==
    IF "lastChallengeReset" \notin DOMAIN progress \/ progress["lastChallengeReset"] # today
    THEN Put(Put(progress, "dailyChallenges", generateDailyChallenges(pick)),
             "lastChallengeReset", today)
    ELSE progress

BackFillNothing(progress) == progress

\* Lines 386-392: the fields later versions added
BackFill(progress) ==
    LET p1 == IF "pirateOutfits" \notin DOMAIN progress
              THEN Put(Put(progress, "pirateOutfits", generatePirateOutfits),
                       "selectedOutfit", "default")
              ELSE progress
        p2 == IF Falsy(p1, "totalEnemiesDefeated") THEN Put(p1, "totalEnemiesDefeated", 0)
              ELSE p1
    IN  IF Falsy(p2, "totalSurvivalTime") THEN Put(p2, "totalSurvivalTime", 0) ELSE p2

\* The playerProgress initializer (375-446) and the gameState initializer
\* after it (453-467), given the stored item, the date and the shuffle:
\* "mounted" with the profile, or "threw" with the line that threw
initialProgress(item, today, pick) ==
    IF item.kind \in {"none", "empty"}
    THEN [outcome |-> "mounted", line |-> 0, progress |-> DefaultProgressOn(pick, today)]
    ELSE LET parsed == JSON_parse(item)
         IN  IF parsed.threw
             THEN [outcome |-> "threw", line |-> 379, progress |-> parsed.value]
             ELSE IF parsed.isNull
             THEN [outcome |-> "threw", line |-> 382, progress |-> parsed.value]
             ELSE LET progress == BackFill(ResetChallenges(parsed.value, today, pick))
                  IN  IF "shipUpgrades" \notin DOMAIN progress
                      THEN [outcome |-> "threw", line |-> 470, progress |-> progress]
                      ELSE [outcome |-> "mounted", line |-> 0, progress |-> progress]

---------------------------------------------------------------------------
(* Geometry and physics *)

\* checkCollision(rect1, rect2)
checkCollision(rect1, rect2) ==
    /\ rect1.x < rect2.x + rect2.width
    /\ rect1.x + rect1.width > rect2.x
    /\ rect1.y < rect2.y + rect2.height
    /\ rect1.y + rect1.height > rect2.y

\* The player of lines 518-527 and 1674-1683
InitialPlayer ==
    [x |-> Px(100), y |-> Px(300), width |-> Px(32), height |-> Px(32),
     velocityY |-> 0, isJumping |-> FALSE, isSliding |-> FALSE, groundY |-> Px(300)]

PlayerPhysicsUnclamped(prev) ==
    [prev EXCEPT !.y = prev.y + prev.velocityY, !.velocityY = prev.velocityY + GRAVITY]

\* The setPlayer updater of the game loop (1328-1345)
PlayerPhysics(prev) ==
    LET newY == prev.y + prev.velocityY
        landed == newY >= prev.groundY
    IN  [prev EXCEPT !.y = IF landed THEN prev.groundY ELSE newY,
                     !.velocityY = IF landed THEN 0 ELSE prev.velocityY + GRAVITY,
                     !.isJumping = IF landed THEN FALSE ELSE prev.isJumping]

checkCoinMagnetAnywhere(pl, coinMagnetRange, coin) ==
    LET dx == pl.x + pl.width \div 2 - (coin.x + coin.width \div 2)
        dy == pl.y + pl.height \div 2 - (coin.y + coin.height \div 2)
    IN  [x |-> coin.x + (dx * 3) \div 100, y |-> coin.y + (dy * 3) \div 100]

\* checkCoinMagnet(coin): the squared centre distance is compared with the
\* squared bounds (a coin a full range away on one axis is out of range
\* whatever the other); the pull dx * 0.3 * 0.1 is kept to the hundredth of
\* a pixel
checkCoinMagnet(pl, coinMagnetRange, coin) ==
    LET magnetRange == Px(50 + coinMagnetRange)
        dx == pl.x + pl.width \div 2 - (coin.x + coin.width \div 2)
        dy == pl.y + pl.height \div 2 - (coin.y + coin.height \div 2)
        near == Abs(dx) < magnetRange /\ Abs(dy) < magnetRange
    IN  IF near /\ dx * dx + dy * dy < magnetRange * magnetRange
                /\ dx * dx + dy * dy > Px(20) * Px(20)
        THEN [x |-> coin.x + (dx * 3) \div 100, y |-> coin.y + (dy * 3) \div 100]
        ELSE [x |-> coin.x, y |-> coin.y]

---------------------------------------------------------------------------
(* Random draws explored *)

\* Level seeds drawn by Math.floor(Math.random() * 10000)
Seeds == {0}

\* generateObstacle: with seed 0 the draws .1, .86 and .9 select a crab, a
\* parrot and a treasure chest; the obstacle appears at the canvas edge, a
\* parrot at the lower end of its band
ObstacleDraws == { [t |-> 100, x |-> 0, y |-> 999],
                   [t |-> 860, x |-> 0, y |-> 999],
                   [t |-> 900, x |-> 0, y |-> 999] }

\* generateCoin: at the canvas edge, at the player's height
CoinDraws == { [x |-> 0, y |-> 950] }

\* generatePowerUp: a speed boost or an extra life at the canvas edge, at the
\* player's height
PowerUpDraws == { [t |-> 0, x |-> 0, y |-> 900], [t |-> 999, x |-> 0, y |-> 900] }

\* velocityY of a thrown banana, Math.random() * 4 - 2, in hundredths
BananaDraws == { 199 }

---------------------------------------------------------------------------
(* The loop effect (1646-1656) *)

RunningWhilePaused(gs) == gs.isPlaying

\* The condition under which the loop effect requests an animation frame
\* (1648) and past which the tick does not return at once (1269)
Running(gs) == gs.isPlaying /\ ~gs.isPaused

\* No frame requested: animationRef.current is 0 (373)
NoFrames == [held |-> FALSE, orphans |-> 0]

\* A callback is waiting for the next frame
FramePending(requests) == requests.held \/ requests.orphans > 0

\* The requests left when the browser runs the oldest one
RunFrame(requests) ==
    IF requests.orphans > 0 THEN [requests EXCEPT !.orphans = @ - 1]
    ELSE [requests EXCEPT !.held = FALSE]

LoopEffectUncancelled(requests, gs) ==
    IF Running(gs)
    THEN [held |-> TRUE, orphans |-> requests.orphans + (IF requests.held THEN 1 ELSE 0)]
    ELSE requests

\* The effect after a render with a new gameLoop (any of gameState, player,
\* the stores or animationFrame changed): the cleanup of the run before
\* cancels the request whose handle animationRef.current holds (1652-1654),
\* then a frame is requested while the game is running and its handle kept
\* (1648-1650).  held: the request of the kept handle is pending; orphans:
\* the pending requests whose handle is no longer kept.
LoopEffect(requests, gs) ==
    LET cancelled == [requests EXCEPT !.held = FALSE]
    IN  IF Running(gs) THEN [cancelled EXCEPT !.held = TRUE] ELSE cancelled

---------------------------------------------------------------------------
(* Initial state: the component after its first render *)

NoTimer == [pending |-> FALSE, score |-> 0, coins |-> 0, dailyChallenges |-> <<>>]

\* ev: what the latest tick of the run resolved (nothing before the first)
NoEvent ==
    [ticked |-> FALSE, landed |-> FALSE, damage |-> 0, chests |-> {}, bananas |-> {},
     coinPicks |-> {}, powerUpPicks |-> {}]

\* useState<GameState> initializer (453-467)
NoSlide == [started |-> 0, reverted |-> FALSE, run |-> 0, isPlaying |-> FALSE,
            isPaused |-> FALSE]

NoCall == [called |-> FALSE, levelSeed |-> 0, score |-> 0, rand |-> 0, type |-> "crab",
           pattern |-> generateAILevelPattern(0), label |-> generateAILevelPattern(0).name,
           laterScore |-> 0, laterPattern |-> generateAILevelPattern(0)]

InitialGameState(progress, speed, seed) ==
    LET shipBoosts == calculateShipBoosts(progress.shipUpgrades)
    IN  [isPlaying |-> FALSE, isPaused |-> FALSE, score |-> 0, coins |-> 0,
         lives |-> Max(1, 3 + shipBoosts.startingLives),
         gameSpeed |-> (speed * shipBoosts.speedMultiplier) \div 1000,
         shipBoosts |-> shipBoosts,
         levelSeed |-> seed]

\* No coin moved on its own yet
NoPull == [called |-> FALSE, player |-> InitialPlayer, coinMagnetRange |-> 0, gameSpeed |-> 0,
           coin |-> generateCoin(0, [x |-> 0, y |-> 0], 0), moved |-> <<>>]

\* Nothing bought, chosen or loaded yet
NoPurchase(progress) == [op |-> "none", id |-> "", prev |-> progress]

NoBoot == [called |-> FALSE, item |-> NoItem, today |-> Today, pick |-> <<1, 2, 3>>,
           result |-> initialProgress(NoItem, Today, <<1, 2, 3>>)]

\* The component after its first render and the effects of the mount, the
\* save effect among them
Mounted(dev, progress, seed) ==
    /\ canvasSize = getResponsiveCanvasSize(dev)
    /\ baseSpeed = getMobileSpeed(dev)
    /\ playerProgress = progress
    /\ gameState = InitialGameState(playerProgress, baseSpeed, seed)
    /\ player = InitialPlayer
    /\ obstacles = <<>>
    /\ coins = <<>>
    /\ powerUps = <<>>
    /\ projectiles = <<>>
    /\ animationFrame = 0
    /\ gameOverTimer = NoTimer
    /\ runsStarted = 0
    /\ spawned = 0
    /\ ev = NoEvent
    /\ slideTimers = <<>>
    /\ slideEv = NoSlide
    /\ sel = NoCall
    /\ storage = SaveProgress(progress)
    /\ shop = NoPurchase(progress)
    /\ boot = NoBoot
    /\ pull = NoPull
    /\ frameRequests = LoopEffect(NoFrames, gameState)

Init ==
    \E dev \in Devices, seed \in Seeds :
        \E progress \in InitialProfiles(dev) : Mounted(dev, progress, seed)

---------------------------------------------------------------------------
(* The game-over effect (1729-1752) *)

\* The timer after the render that follows a handler.  While lives <= 1 and
\* isPlaying hold, every run of the effect clears the handle it finds and
\* stores a new one, which is itself a dependency of the effect: the timeout
\* pending after the render is the one of the latest run, and its callback
\* holds the handleGameOver of that render (score, coins and the challenge
\* list it closes over).  Otherwise the effect creates nothing; the cleanup
\* clears the handle of the render before, never the pending one.
GameOverEffect(gs, progress, timer) ==
    IF gs.lives <= 1 /\ gs.isPlaying
    THEN [pending |-> TRUE, score |-> gs.score, coins |-> gs.coins,
          dailyChallenges |-> progress.dailyChallenges]
    ELSE timer

---------------------------------------------------------------------------
(* startGame (1658-1697) *)

StartingLivesOfHull(shipBoosts) == Max(1, 3 + shipBoosts.startingLives)

\* Line 1667: the lives a run starts with
StartingLives(shipBoosts) == Max(1, 3 + shipBoosts.startingLives + shipBoosts.extraLives)

KeepGameOverTimer(timer) == timer

\* Lines 1692-1696: the pending game-over timeout is cleared and the handle
\* forgotten
ClearGameOverTimer(timer) == NoTimer

startGame ==
    /\ ~gameState.isPlaying          \* the button and the canvas click, 1826 and 2069
    /\ runsStarted < MaxRuns
    /\ \E newLevelSeed \in Seeds :
         LET shipBoosts == calculateShipBoosts(playerProgress.shipUpgrades)
             gs == [isPlaying |-> TRUE, isPaused |-> FALSE, score |-> 0, coins |-> 0,
                    lives |-> StartingLives(shipBoosts),
                    gameSpeed |-> (baseSpeed * shipBoosts.speedMultiplier) \div 1000,
                    shipBoosts |-> shipBoosts,
                    levelSeed |-> newLevelSeed]
         IN  /\ gameState' = gs
             /\ gameOverTimer' = GameOverEffect(gs, playerProgress,
                                                ClearGameOverTimer(gameOverTimer))
    /\ player' = InitialPlayer
    /\ obstacles' = <<>>
    /\ coins' = <<>>
    /\ powerUps' = <<>>
    /\ projectiles' = <<>>
    /\ runsStarted' = runsStarted + 1
    /\ ev' = NoEvent
    /\ frameRequests' = LoopEffect(frameRequests, gameState')
    /\ UNCHANGED <<canvasSize, baseSpeed, playerProgress, animationFrame, spawned,
                   slideTimers, slideEv, sel,
                   storage, shop, boot, pull>>

---------------------------------------------------------------------------
(* Inputs *)

\* jump (541-549)
jump ==
    /\ ~player.isJumping
    /\ gameState.isPlaying
    /\ player' = [player EXCEPT !.velocityY = JUMP_FORCE, !.isJumping = TRUE]
    /\ frameRequests' = LoopEffect(frameRequests, gameState)
    /\ UNCHANGED <<canvasSize, baseSpeed, playerProgress, gameState, obstacles, coins,
                   powerUps, projectiles, animationFrame, gameOverTimer, runsStarted,
                   spawned, ev, slideTimers, slideEv, sel,
                   storage, shop, boot, pull>>

ScheduleNothing(timers, run) == timers

\* setTimeout(..., 500) of line 560: one more pending revert
ScheduleRevert(timers, run) == Append(timers, [run |-> run])

\* slide (551-569): the posture and the revert scheduled 500 ms ahead.  The
\* timeout is tagged with the run it was scheduled in.
slide ==
    /\ gameState.isPlaying
    /\ ~player.isSliding
    /\ slideEv.started < MaxSlides
    /\ player' = [player EXCEPT !.isSliding = TRUE, !.height = Px(16),
                                !.y = player.groundY + Px(16)]
    /\ slideTimers' = ScheduleRevert(slideTimers, runsStarted)
    /\ slideEv' = [slideEv EXCEPT !.started = @ + 1]
    /\ frameRequests' = LoopEffect(frameRequests, gameState)
    /\ UNCHANGED <<canvasSize, baseSpeed, playerProgress, gameState, obstacles, coins,
                   powerUps, projectiles, animationFrame, gameOverTimer, runsStarted,
                   spawned, ev, sel,
                   storage, shop, boot, pull>>

\* The setTimeout callback of lines 560-567: timeouts of equal delay come due
\* in the order they were scheduled; nothing in the component clears one
slideTimeout ==
    /\ slideTimers # <<>>
    /\ player' = [player EXCEPT !.isSliding = FALSE, !.height = Px(32),
                                !.y = player.groundY]
    /\ slideTimers' = Tail(slideTimers)
    /\ slideEv' = [slideEv EXCEPT !.reverted = TRUE, !.run = Head(slideTimers).run,
                                  !.isPlaying = gameState.isPlaying,
                                  !.isPaused = gameState.isPaused]
    /\ frameRequests' = LoopEffect(frameRequests, gameState)
    /\ UNCHANGED <<canvasSize, baseSpeed, playerProgress, gameState, obstacles, coins,
                   powerUps, projectiles, animationFrame, gameOverTimer, runsStarted,
                   spawned, ev, sel,
                   storage, shop, boot, pull>>

\* pauseGame (1754-1756); its buttons are rendered while isPlaying (1778, 2085)
pauseGame ==
    /\ gameState.isPlaying
    /\ gameState' = [gameState EXCEPT !.isPaused = ~gameState.isPaused]
    /\ gameOverTimer' = GameOverEffect(gameState', playerProgress, gameOverTimer)
    /\ frameRequests' = LoopEffect(frameRequests, gameState')
    /\ UNCHANGED <<canvasSize, baseSpeed, playerProgress, player, obstacles, coins,
                   powerUps, projectiles, animationFrame, runsStarted, spawned, ev,
                   slideTimers, slideEv, sel,
                   storage, shop, boot, pull>>

---------------------------------------------------------------------------
(* The game loop's updaters (1268-1615) *)

\* Object identity (obs !== obstacle): the same allocation
SameObject(a, b) == a.id = b.id /\ a.gen = b.gen

LoseLifeUnclamped(lives) == lives - 1

\* Math.max(1, prev.lives - 1) of lines 1531, 1541 and 1550
LoseLife(lives) == Max(1, lives - 1)

\* Math.min(prevState.lives + 1, 5) of line 1588
GainLife(lives) == Min(lives + 1, 5)

RECURSIVE LoseLives(_, _)
LoseLives(lives, n) == IF n = 0 THEN lives ELSE LoseLives(LoseLife(lives), n - 1)

RECURSIVE GainLives(_, _)
GainLives(lives, n) == IF n = 0 THEN lives ELSE GainLives(GainLife(lives), n - 1)

\* The copy the obstacle map makes (1353-1386): { ...obstacle } moved
MoveObstacle(obstacle, gameSpeed, frame) ==
    [obstacle EXCEPT
        !.gen = @ + 1,
        !.x = IF obstacle.type = "moonwalk-crab" THEN @ - (gameSpeed * 7) \div 10
              ELSE @ - gameSpeed,
        !.y = IF obstacle.type = "parrot" THEN @ + SinBob(frame) ELSE @]

\* First setObstacles updater (1351-1395): move, cull, spawn
UpdateObstacles(prev, gs, frame, width, draw) ==
    LET moved == [i \in 1..Len(prev) |-> MoveObstacle(prev[i], gs.gameSpeed, frame)]
        OnScreen(o) == o.x > -o.width
        updated == SelectSeq(moved, OnScreen)
    IN  IF updated = <<>> \/ updated[Len(updated)].x < Px(CANVAS_WIDTH - 200)
        THEN Append(updated, generateObstacle(width, gs.levelSeed, gs.score, draw, frame))
        ELSE updated

\* setObstacles((prev) => prev.filter((obs) => obs !== obstacle)) (1537), once
\* for every obstacle of hit
RemoveObstacles(prev, hit) ==
    LET Other(obs) == \A obstacle \in hit : ~SameObject(obs, obstacle)
    IN  SelectSeq(prev, Other)

\* The banana a parrot throws (1370-1378)
newBanana(obstacle, velocityY, id) ==
    [id |-> id, gen |-> 0, x |-> obstacle.x, y |-> obstacle.y + Px(16),
     velocityX |-> -Px(3), velocityY |-> velocityY, width |-> Px(8), height |-> Px(4)]

\* First setProjectiles updater (1433-1447): move, cull
UpdateProjectiles(prev) ==
    LET moved == [i \in 1..Len(prev) |->
                    [prev[i] EXCEPT !.gen = @ + 1,
                                    !.x = @ + prev[i].velocityX,
                                    !.y = @ + prev[i].velocityY,
                                    !.velocityY = @ + 20]]
        InPlay(q) == /\ q.x > -q.width
                     /\ q.x < Px(CANVAS_WIDTH) + q.width
                     /\ q.y < Px(CANVAS_HEIGHT)
    IN  SelectSeq(moved, InPlay)

\* setProjectiles((prev) => prev.filter((proj) => proj !== projectile)) (1551),
\* once for every projectile of hit
RemoveProjectiles(prev, hit) ==
    LET Other(proj) == \A projectile \in hit : ~SameObject(proj, projectile)
    IN  SelectSeq(prev, Other)

\* First setPowerUps updater (1453-1467): move, cull, spawn (spawn = <<>>: no spawn)
UpdatePowerUps(prev, gs, spawn) ==
    LET moved == [i \in 1..Len(prev) |-> [prev[i] EXCEPT !.x = @ - gs.gameSpeed]]
        Kept(q) == q.x > -q.width /\ ~q.collected
    IN  SelectSeq(moved, Kept) \o spawn

CollectPowerUpsUnmarked(prev, pl) == prev

\* Second setPowerUps updater (1571-1598): the store part
CollectPowerUps(prev, pl) ==
    [i \in 1..Len(prev) |->
        IF ~prev[i].collected /\ checkCollision(pl, prev[i])
        THEN [prev[i] EXCEPT !.collected = TRUE] ELSE prev[i]]

\* The power-ups the second updater applies the effect of
PickedPowerUps(prev, pl) ==
    {q \in Range(prev) : ~q.collected /\ checkCollision(pl, q)}

\* First setCoins updater (1476-1494): magnet, move, cull, spawn
UpdateCoins(prev, pl, gs, spawn) ==
    LET pulled(coin) == checkCoinMagnet(pl, gs.shipBoosts.coinMagnetRange, coin)
        moved == [i \in 1..Len(prev) |->
                    [prev[i] EXCEPT !.x = pulled(prev[i]).x - gs.gameSpeed,
                                    !.y = pulled(prev[i]).y]]
        Kept(coin) == coin.x > -coin.width /\ ~coin.collected
    IN  SelectSeq(moved, Kept) \o spawn

\* Second setCoins updater (1556-1569): the store part
CollectCoins(prev, pl) ==
    [i \in 1..Len(prev) |->
        IF ~prev[i].collected /\ checkCollision(pl, prev[i])
        THEN [prev[i] EXCEPT !.collected = TRUE] ELSE prev[i]]

PickedCoinsUnguarded(prev, pl) == {coin \in Range(prev) : checkCollision(pl, coin)}

\* The coins the second updater awards
PickedCoins(prev, pl) ==
    {coin \in Range(prev) : ~coin.collected /\ checkCollision(pl, coin)}

\* Obstacle collisions (1526-1544): the obstacles that cost a life
DamagingObstacles(obs, pl) ==
    {o \in Range(obs) :
        /\ checkCollision(pl, o)
        /\ \/ o.type = "gap" /\ pl.y + pl.height >= o.y
           \/ o.type \notin {"gap", "treasure-chest"}}

\* Obstacle collisions (1532-1537): the treasure chests opened
OpenedChests(obs, pl) ==
    {o \in Range(obs) :
        /\ checkCollision(pl, o)
        /\ ~(o.type = "gap" /\ pl.y + pl.height >= o.y)
        /\ o.type = "treasure-chest"}

\* Projectile collisions (1547-1553)
HittingProjectiles(projs, pl) == {q \in Range(projs) : checkCollision(pl, q)}

\* The parrots that may throw a banana this frame (1369)
ThrowingParrots(obs) ==
    {o \in Range(obs) : o.type = "parrot" /\ o.x < Px(CANVAS_WIDTH) /\ o.x > 0}

TickGameStateUnscored(closure, damage, chests, coinPicks, boostPicks, lifePicks) ==
    [closure EXCEPT
        !.lives = GainLives(LoseLives(@, damage), lifePicks),
        !.coins = @ + 5 * chests + coinPicks,
        !.score = @ + 50 * chests + 10 * coinPicks + 25 * boostPicks + 50 * lifePicks,
        !.isPlaying = IF closure.lives <= 1 THEN FALSE ELSE @]

\* The setGameState updates one tick queues, in the order they are applied:
\* the collisions (1531-1550), the score (1604), the game-over check (1608),
\* then the render-phase updates of the coin updater (1560-1564) and of the
\* power-up updater (1579-1590).  closure is the gameState the tick reads.
TickGameState(closure, damage, chests, coinPicks, boostPicks, lifePicks) ==
    [closure EXCEPT
        !.lives = GainLives(LoseLives(@, damage), lifePicks),
        !.coins = @ + 5 * chests + coinPicks,
        !.score = @ + 50 * chests + 1 + 10 * coinPicks + 25 * boostPicks + 50 * lifePicks,
        !.isPlaying = IF closure.lives <= 1 THEN FALSE ELSE @]

\* The setPlayerProgress of the game-over check (1609-1614)
TickProgress(prev, closure) ==
    IF closure.lives <= 1
    THEN [prev EXCEPT !.gamesPlayed = @ + 1,
                      !.bestScore = Max(@, prev.totalCoins + closure.coins),
                      !.totalCoins = @ + closure.coins]
    ELSE prev

\* What the random draws of one tick, besides the new obstacle's, may be: no
\* optional spawn, or (while the exploration allows one) a coin, a power-up or
\* a banana thrown by one of the parrots in range
OptionalDraws(obs, allowed) ==
    {[kind |-> "none", t |-> 0, x |-> 0, y |-> 0, parrot |-> 0]}
    \cup
    (IF allowed
     THEN {[kind |-> "coin", t |-> 0, x |-> d.x, y |-> d.y, parrot |-> 0] : d \in CoinDraws}
          \cup
          {[kind |-> "powerUp", t |-> d.t, x |-> d.x, y |-> d.y, parrot |-> 0] :
              d \in PowerUpDraws}
          \cup
          {[kind |-> "banana", t |-> 0, x |-> 0, y |-> v, parrot |-> o.id] :
              o \in ThrowingParrots(obs), v \in BananaDraws}
     ELSE {})

\* gameLoop (1268-1615), with the render and the effects that follow it
gameLoopWith(obstacleDraws, spawnsAllowed, frames) ==
    /\ FramePending(frameRequests)
    /\ Running(gameState)
    /\ animationFrame < frames
    /\ \E draw \in obstacleDraws, opt \in OptionalDraws(obstacles, spawnsAllowed) :
         LET chests == OpenedChests(obstacles, player)
             bananas == HittingProjectiles(projectiles, player)
             damage == Cardinality(DamagingObstacles(obstacles, player))
                       + Cardinality(bananas)
             thrown == IF opt.kind = "banana"
                       THEN LET parrot == CHOOSE o \in ThrowingParrots(obstacles) :
                                              o.id = opt.parrot
                            IN  <<newBanana(parrot, opt.y, animationFrame)>>
                       ELSE <<>>
             movedPowerUps ==
                 UpdatePowerUps(powerUps, gameState,
                                IF opt.kind = "powerUp"
                                THEN <<generatePowerUp(canvasSize, opt, animationFrame)>>
                                ELSE <<>>)
             movedCoins ==
                 UpdateCoins(coins, player, gameState,
                             IF opt.kind = "coin"
                             THEN <<generateCoin(canvasSize, opt, animationFrame)>>
                             ELSE <<>>)
             pickedCoins == PickedCoins(movedCoins, player)
             pickedPowerUps == PickedPowerUps(movedPowerUps, player)
             lifePicks == {q \in pickedPowerUps : q.type = "extra-life"}
         IN  /\ player' = PlayerPhysics(player)
             /\ obstacles' = RemoveObstacles(
                                UpdateObstacles(obstacles, gameState, animationFrame,
                                                canvasSize, draw),
                                chests)
             /\ projectiles' = RemoveProjectiles(UpdateProjectiles(projectiles), bananas)
                               \o thrown
             /\ powerUps' = CollectPowerUps(movedPowerUps, player)
             /\ coins' = CollectCoins(movedCoins, player)
             /\ gameState' = TickGameState(gameState, damage, Cardinality(chests),
                                           Cardinality(pickedCoins),
                                           Cardinality(pickedPowerUps \ lifePicks),
                                           Cardinality(lifePicks))
             /\ playerProgress' = TickProgress(playerProgress, gameState)
             /\ spawned' = IF opt.kind = "none" THEN spawned ELSE spawned + 1
             /\ ev' = [ticked |-> TRUE,
                       landed |-> player.isJumping /\ ~PlayerPhysics(player).isJumping,
                       damage |-> damage,
                       chests |-> {o.id : o \in chests},
                       bananas |-> {q.id : q \in bananas},
                       coinPicks |-> {c.id : c \in pickedCoins},
                       powerUpPicks |-> {q.id : q \in pickedPowerUps}]
    /\ animationFrame' = animationFrame + 1
    /\ gameOverTimer' = GameOverEffect(gameState', playerProgress', gameOverTimer)
    /\ storage' = IF playerProgress' = playerProgress THEN storage   \* effect of [playerProgress], 504
                  ELSE SaveProgress(playerProgress')
    /\ frameRequests' = LoopEffect(RunFrame(frameRequests), gameState')
    /\ UNCHANGED <<canvasSize, baseSpeed, runsStarted, slideTimers, slideEv, sel,
                   shop, boot, pull>>

\* A tick under any of the draws
gameLoop == gameLoopWith(ObstacleDraws, spawned < MaxSpawns, MaxFrames)

\* A tick whose selector draw yields a crab and whose optional spawns stay out
gameLoopCrab == gameLoopWith({d \in ObstacleDraws : d.t = 100}, FALSE, MaxFrames)

\* The same tick, for as many frames as a jump lasts
gameLoopJump == gameLoopWith({d \in ObstacleDraws : d.t = 100}, FALSE, MaxJumpFrames)

---------------------------------------------------------------------------
(* Run end: handleGameOver (1699-1727) and the grace timer's callback *)

\* updateChallengeProgress(type, amount) (772-788)
updateChallengeProgress(prev, type, amount) ==
    [prev EXCEPT !.dailyChallenges =
        [i \in 1..Len(@) |->
            IF @[i].type = type /\ ~@[i].completed
            THEN LET newProgress == @[i].progress + amount
                 IN  IF newProgress >= @[i].target
                     THEN [@[i] EXCEPT !.progress = newProgress, !.completed = TRUE]
                     ELSE [@[i] EXCEPT !.progress = newProgress]
            ELSE @[i]]]

\* challengeRewards (1709-1717), from the challenge list and the score and
\* coins handleGameOver closes over
challengeRewards(dailyChallenges, score, coinCount) ==
    SumSeq([i \in 1..Len(dailyChallenges) |->
        LET c == dailyChallenges[i]
        IN  IF /\ ~c.completed
               /\ \/ c.type = "score" /\ score >= c.target
                  \/ c.type = "coins" /\ coinCount >= c.target
                  \/ c.type = "survival" /\ FloorDiv(score, 10) >= c.target
            THEN c.reward ELSE 0])

handleGameOverWithEnemies(prev, closure) ==
    LET p1 == updateChallengeProgress(prev, "score", closure.score)
        p2 == updateChallengeProgress(p1, "coins", closure.coins)
        p3 == updateChallengeProgress(p2, "survival", FloorDiv(closure.score, 10))
        p4 == updateChallengeProgress(p3, "enemies", 1)
    IN  [p4 EXCEPT
            !.totalCoins = @ + closure.coins
                           + challengeRewards(closure.dailyChallenges, closure.score,
                                              closure.coins),
            !.gamesPlayed = @ + 1,
            !.bestScore = Max(@, closure.score),
            !.totalSurvivalTime = @ + FloorDiv(closure.score, 10)]

\* handleGameOver(): what it makes of the profile
handleGameOver(prev, closure) ==
    LET p1 == updateChallengeProgress(prev, "score", closure.score)
        p2 == updateChallengeProgress(p1, "coins", closure.coins)
        p3 == updateChallengeProgress(p2, "survival", FloorDiv(closure.score, 10))
    IN  [p3 EXCEPT
            !.totalCoins = @ + closure.coins
                           + challengeRewards(closure.dailyChallenges, closure.score,
                                              closure.coins),
            !.gamesPlayed = @ + 1,
            !.bestScore = Max(@, closure.score),
            !.totalSurvivalTime = @ + FloorDiv(closure.score, 10)]

\* The setTimeout callback of lines 1737-1741, 2000 ms after the effect last
\* armed it.  While lives <= 1 and isPlaying hold the effect arms it anew on
\* every render, so it comes due only once one of them has ceased to hold.
gameOverTimeout ==
    /\ gameOverTimer.pending
    /\ ~(gameState.lives <= 1 /\ gameState.isPlaying)
    /\ gameState' = [gameState EXCEPT !.isPlaying = FALSE]
    /\ playerProgress' = handleGameOver(playerProgress, gameOverTimer)
    /\ gameOverTimer' = GameOverEffect(gameState', playerProgress', NoTimer)
    /\ storage' = SaveProgress(playerProgress')
    /\ frameRequests' = LoopEffect(frameRequests, gameState')
    /\ UNCHANGED <<canvasSize, baseSpeed, player, obstacles, coins, powerUps,
                   projectiles, animationFrame, runsStarted, spawned, ev,
                   slideTimers, slideEv, sel,
                   shop, boot, pull>>

---------------------------------------------------------------------------
(* The shop's handlers and the page load *)

\* The ids a handler may be called with: those of the lists and one of neither
UpgradeIds == {"hull", "sails", "compass", "crew", "anchor"}

OutfitIds == {"default", "fancy", "ghost", "royal", "ninja"}

\* What a call of a shop handler leaves behind: the profile its updater
\* returns, the save effect's write of it, and the game-over effect and the
\* loop effect of the render that follows (a new outfit list or selection
\* makes a new drawPixelPirate, hence a new gameLoop)
ShopCall(op, id, next) ==
    /\ playerProgress' = next
    /\ storage' = SaveProgress(next)
    /\ shop' = [op |-> op, id |-> id, prev |-> playerProgress]
    /\ gameOverTimer' = GameOverEffect(gameState, next, gameOverTimer)
    /\ frameRequests' = IF \/ next.pirateOutfits # playerProgress.pirateOutfits
                           \/ next.selectedOutfit # playerProgress.selectedOutfit
                        THEN LoopEffect(frameRequests, gameState)   \* drawPixelPirate (913)
                        ELSE frameRequests
    /\ UNCHANGED <<canvasSize, baseSpeed, gameState, player, obstacles, coins, powerUps,
                   projectiles, animationFrame, runsStarted, spawned, ev, slideTimers,
                   slideEv, sel, boot, pull>>

\* purchaseUpgrade(upgradeId) (752-770); the handler checks level and coins
\* itself, whatever the button showed
buyUpgrade ==
    \E upgradeId \in UpgradeIds :
        ShopCall("purchaseUpgrade", upgradeId, purchaseUpgrade(playerProgress, upgradeId))

\* purchaseUpgrade of one of the two upgrades that add lives
buyLives ==
    \E upgradeId \in {"hull", "crew"} :
        ShopCall("purchaseUpgrade", upgradeId, purchaseUpgrade(playerProgress, upgradeId))

\* purchaseOutfit(outfitId) (790-801)
buyOutfit ==
    \E outfitId \in OutfitIds :
        ShopCall("purchaseOutfit", outfitId, purchaseOutfit(playerProgress, outfitId))

SelectEnabledWhenLocked(progress, outfit) == progress.selectedOutfit # outfit.id

\* The outfit's card shows the Select button (1901) and the button is enabled
\* (1904); a locked outfit's card shows Purchase in its place (1910-1918)
SelectEnabled(progress, outfit) ==
    outfit.unlocked /\ progress.selectedOutfit # outfit.id

\* selectOutfit(outfitId) (803-808), from the Select button of an unlocked
\* outfit that is not the selected one (1901-1905)
chooseOutfit ==
    \E i \in 1..Len(playerProgress.pirateOutfits) :
        LET outfit == playerProgress.pirateOutfits[i]
        IN  /\ SelectEnabled(playerProgress, outfit)
            /\ ShopCall("selectOutfit", outfit.id, selectOutfit(playerProgress, outfit.id))

\* The dates a page load may fall on and the shuffles it may draw: the first
\* three places of every order of the five challenges
Days == {Yesterday, Today}

Picks == {pick \in [1..3 -> 1..5] : \A i, j \in 1..3 : i # j => pick[i] # pick[j]}

\* The fields that later versions of the profile added (386-392, 380-385)
NewerFields == {"lastChallengeReset", "pirateOutfits", "selectedOutfit",
                "totalEnemiesDefeated", "totalSurvivalTime"}

\* obj without the given keys
Without(obj, keys) == [k \in DOMAIN obj \ keys |-> obj[k]]

\* Profiles as a session of some day left them
SavedProfiles ==
    {[progress EXCEPT !.lastChallengeReset = day] :
        progress \in {StoredProgress(<<1, 2, 3>>), UpgradedProgress(<<4, 5, 2>>),
                      selectOutfit(purchaseOutfit(RichProgress(<<4, 5, 2>>), "fancy"),
                                   "fancy")},
        day \in Days}

\* What the item may hold at a page load: nothing, a text that is no JSON
\* object, a saved profile, or a profile saved by a version that did not
\* write some of the newer fields or the upgrade list
StoredItems ==
    {NoItem, EmptyText, NullText, BrokenText}
    \cup {SaveProgress(Without(progress, missing)) :
            progress \in SavedProfiles, missing \in SUBSET NewerFields}
    \cup {SaveProgress(Without(progress, {"shipUpgrades"})) : progress \in SavedProfiles}

\* One page load: the initializers of playerProgress and gameState
loadProgress ==
    /\ ~boot.called
    /\ \E item \in StoredItems, today \in Days, pick \in Picks :
         boot' = [called |-> TRUE, item |-> item, today |-> today, pick |-> pick,
                  result |-> initialProgress(item, today, pick)]
    /\ UNCHANGED <<canvasSize, baseSpeed, playerProgress, gameState, player, obstacles,
                   coins, powerUps, projectiles, animationFrame, gameOverTimer,
                   runsStarted, spawned, ev, slideTimers, slideEv, sel, storage, shop, pull,
                   frameRequests>>

---------------------------------------------------------------------------
(* Specification *)

\* The game under every random draw, with the jump and pause inputs
Next ==
    \/ startGame
    \/ jump
    \/ pauseGame
    \/ gameLoop
    \/ gameOverTimeout

Spec == Init /\ [][Next]_vars

\* Timeouts that are due run: the browser's timer queue is served whatever
\* the page does.  Animation frames and inputs have no such guarantee.
FairSpec == Spec /\ WF_vars(gameOverTimeout)

\* The game under every input, slides included, on the phone with nothing
\* stored and crabs as the only obstacles
SlideInit == Init /\ canvasSize < CANVAS_WIDTH /\ playerProgress = DefaultProgress(<<1, 2, 3>>)

SlideNext ==
    \/ startGame
    \/ jump
    \/ slide
    \/ slideTimeout
    \/ pauseGame
    \/ gameLoopCrab
    \/ gameOverTimeout

SlideSpec == SlideInit /\ [][SlideNext]_vars

\* The player's inputs and the physics over a whole jump, on the desktop
\* canvas, where no obstacle reaches the player in that time
JumpInit == Init /\ canvasSize = CANVAS_WIDTH

JumpNext ==
    \/ startGame
    \/ jump
    \/ slide
    \/ slideTimeout
    \/ pauseGame
    \/ gameLoopJump

JumpSpec == JumpInit /\ [][JumpNext]_vars

FairSlideSpec == SlideSpec /\ WF_vars(slideTimeout) /\ WF_vars(gameOverTimeout)

\* The game under every random draw with the jump and pause inputs, on the
\* phone with nothing stored
PhoneSpec == SlideInit /\ [][Next]_vars

---------------------------------------------------------------------------
(* The pattern generator and the selector on their own *)

SelectorSeeds == {0, 1, 5, 315, 319}

SelectorScores == {0, 499, 500, 1000}

SelectorDraws == {0, 100, 374, 860, 900, 978, 979, 999}

\* One evaluation of lines 612-625 and of the HUD's label (1780) with the
\* same gameState, and the pattern of line 612 at another score of the run
selectObstacleType ==
    /\ ~sel.called
    /\ \E levelSeed \in SelectorSeeds, score \in SelectorScores,
          laterScore \in SelectorScores, rand \in SelectorDraws :
         sel' = [called |-> TRUE, levelSeed |-> levelSeed, score |-> score, rand |-> rand,
                 type |-> selectedType(levelSeed, score, rand),
                 pattern |-> currentPattern(levelSeed, score),
                 label |-> patternLabel(levelSeed, score),
                 laterScore |-> laterScore,
                 laterPattern |-> currentPattern(levelSeed, laterScore)]
    /\ UNCHANGED <<canvasSize, baseSpeed, playerProgress, gameState, player, obstacles,
                   coins, powerUps, projectiles, animationFrame, gameOverTimer,
                   runsStarted, spawned, ev, slideTimers, slideEv,
                   storage, shop, boot, pull, frameRequests>>

SelectorNext == selectObstacleType

SelectorInit == Init /\ canvasSize = CANVAS_WIDTH

SelectorSpec == SelectorInit /\ [][SelectorNext]_vars

---------------------------------------------------------------------------
(* The coin updater on one coin *)

\* Centre-to-centre offsets of a coin from the player, in pixels: at, inside
\* and outside the distances 20, 50, 70, 90 and 110
MagnetOffsets ==
    {<<0, 0>>, <<12, 16>>, <<12, 17>>, <<20, 0>>, <<21, 0>>, <<29, 40>>, <<30, 40>>,
     <<49, 0>>, <<50, 0>>, <<42, 56>>, <<41, 56>>, <<53, 72>>, <<54, 72>>, <<89, 0>>,
     <<90, 0>>, <<66, 88>>, <<65, 88>>, <<0, 110>>, <<0, 109>>, <<200, 50>>}

\* The ranges the compass levels 0..3 add (433) and the speeds of the sails
\* levels 0..3 on the phone (462)
MagnetBoosts == {0, 20, 40, 60}

MagnetSpeeds == {280, 336, 392, 448}

\* One evaluation of the first setCoins updater (1476-1486) on a store of one
\* coin, the player standing or 60 or 120 pixels up in a jump
pullCoin ==
    /\ ~pull.called
    /\ \E offset \in MagnetOffsets, sx \in {-1, 1}, sy \in {-1, 1}, rise \in {0, 60, 120},
          boost \in MagnetBoosts, speed \in MagnetSpeeds :
         LET pl == [InitialPlayer EXCEPT !.y = @ - Px(rise), !.isJumping = rise > 0]
             coin == [id |-> 0,
                      x |-> pl.x + pl.width \div 2 - Px(sx * offset[1]) - Px(8),
                      y |-> pl.y + pl.height \div 2 - Px(sy * offset[2]) - Px(8),
                      width |-> Px(16), height |-> Px(16), collected |-> FALSE]
             gs == [gameState EXCEPT !.gameSpeed = speed,
                                     !.shipBoosts.coinMagnetRange = boost]
         IN  /\ coin.x >= 0              \* a coin on the canvas or right of it (1486)
             /\ coin.y >= Px(190)        \* generateCoin's heights (663), pulled or not
             /\ coin.y <= Px(300)
             /\ pull' = [called |-> TRUE, player |-> pl, coinMagnetRange |-> boost,
                      gameSpeed |-> speed, coin |-> coin,
                      moved |-> UpdateCoins(<<coin>>, pl, gs, <<>>)]
    /\ UNCHANGED <<canvasSize, baseSpeed, playerProgress, gameState, player, obstacles,
                   coins, powerUps, projectiles, animationFrame, gameOverTimer,
                   runsStarted, spawned, ev, slideTimers, slideEv, sel, storage, shop,
                   boot, frameRequests>>

MagnetNext == pullCoin

MagnetInit == Init /\ canvasSize = CANVAS_WIDTH

MagnetSpec == MagnetInit /\ [][MagnetNext]_vars

---------------------------------------------------------------------------
(* The shop beside the game, and the page load on its own *)

\* The profiles the shop is explored from, on the phone
ShopProfiles ==
    {DefaultProgress(<<1, 2, 3>>), StoredProgress(<<1, 2, 3>>), RichProgress(<<4, 5, 2>>)}

ShopInit ==
    \E dev \in Devices, seed \in Seeds, progress \in ShopProfiles :
        dev.mobileAgent /\ Mounted(dev, progress, seed)

ShopNext ==
    \/ buyUpgrade
    \/ buyOutfit
    \/ chooseOutfit
    \/ startGame
    \/ gameLoopCrab
    \/ gameOverTimeout

ShopSpec == ShopInit /\ [][ShopNext]_vars

\* The hull and crew upgrades beside the game under every random draw, on the
\* phone, from the profile with 460 coins in hand
UpgradedInit ==
    \E dev \in Devices, seed \in Seeds :
        dev.mobileAgent /\ Mounted(dev, RichProgress(<<4, 5, 2>>), seed)

UpgradedNext ==
    \/ buyLives
    \/ startGame
    \/ gameLoop
    \/ gameOverTimeout

UpgradedSpec == UpgradedInit /\ [][UpgradedNext]_vars

LoadNext == loadProgress

LoadInit == Init /\ canvasSize = CANVAS_WIDTH

LoadSpec == LoadInit /\ [][LoadNext]_vars

---------------------------------------------------------------------------
(* Claims *)

\* The step is a tick of the game loop
Ticked == animationFrame' = animationFrame + 1

\* The step ends the run
RunEnds == gameState.isPlaying /\ ~gameState'.isPlaying

\* The rewards of the challenges whose completed flag the step sets
FlippedRewards ==
    SumSeq([i \in 1..Len(playerProgress.dailyChallenges) |->
        IF /\ ~playerProgress.dailyChallenges[i].completed
           /\ playerProgress'.dailyChallenges[i].completed
        THEN playerProgress.dailyChallenges[i].reward ELSE 0])

\* The chests, bananas and damaging obstacles the player's box overlaps when
\* the tick starts
ChestsTouched ==
    {o \in Range(obstacles) : o.type = "treasure-chest" /\ checkCollision(player, o)}

BananasTouched == {q \in Range(projectiles) : checkCollision(player, q)}

EnemiesTouched ==
    {o \in Range(obstacles) :
        o.type \in {"crab", "barrel", "parrot", "moonwalk-crab"} /\ checkCollision(player, o)}

\* The coins and power-ups whose collected flag is set after the tick
CoinsTaken == {c \in Range(coins') : c.collected}

PowerUpsTaken == {q \in Range(powerUps') : q.collected}

\* C1: in every reachable state lives >= 1: every collision deduction stops at
\* the floor 1, also when several collisions are resolved in one tick.
C1_LivesAtLeastOne == gameState.lives >= 1

\* C1 witness: a tick resolved two collisions with 2 lives left, and lives is 1
C1_FloorReached == ev.ticked /\ ev.damage >= 2 /\ gameState.lives = 1

\* C2: isPlaying changes from true to false only in the step in which the
\* pending grace timer expires; no tick of the game loop ends the run.
C2_OnlyTimerEndsRun ==
    [][RunEnds => (gameOverTimer.pending /\ ~gameOverTimer'.pending)]_vars

\* C3: the run-end bookkeeping executes exactly once per run: gamesPlayed
\* increases by 1 in the step that ends the run and in no other step.
C3_GamesPlayedOncePerRun ==
    [][playerProgress'.gamesPlayed
         = playerProgress.gamesPlayed + (IF RunEnds THEN 1 ELSE 0)]_vars

\* C4: when a run ends totalCoins increases by the run's coins plus the
\* rewards of the challenges that newly crossed their target, and the run's
\* coins are banked in no other step.
C4_CoinsBankedOnce ==
    [][playerProgress'.totalCoins
         = playerProgress.totalCoins
           + (IF RunEnds THEN gameState'.coins + FlippedRewards ELSE 0)]_vars

\* C5: after a run ends bestScore is the maximum of bestScore before and the
\* run's final score, and bestScore changes in no other step.
C5_BestScoreFromScore ==
    [][playerProgress'.bestScore
         = (IF RunEnds THEN Max(playerProgress.bestScore, gameState'.score)
            ELSE playerProgress.bestScore)]_vars

\* C6: in a run-end update of the challenges, totalCoins grows by the run's
\* coins plus the reward of every challenge whose completed flag flips from
\* false to true: no challenge becomes completed without its reward.
C6_RewardWhenCompleted ==
    [][playerProgress'.dailyChallenges # playerProgress.dailyChallenges
         => playerProgress'.totalCoins
              = playerProgress.totalCoins + gameOverTimer.coins + FlippedRewards]_vars

\* C7: a tick in which the player collides with a treasure chest adds 5 coins
\* per chest and leaves no instance of that chest in the obstacle store.
C7_ChestRemoved ==
    [][Ticked =>
        /\ gameState'.coins >= gameState.coins + 5 * Cardinality(ChestsTouched)
        /\ \A chest \in ChestsTouched : \A o \in Range(obstacles') : o.id # chest.id]_vars

\* C8: a tick in which a projectile collides with the player leaves no
\* instance of that projectile in the projectile store.
C8_ProjectileRemoved ==
    [][Ticked =>
        \A banana \in BananasTouched : \A q \in Range(projectiles') : q.id # banana.id]_vars

\* C9: a tick awards +1 coin and +10 score for exactly the coins it marks
\* collected; a coin that is collected when a tick starts is gone from the
\* store after it (so is never awarded again), and a second pass of the
\* collection over the store the tick leaves awards nothing.
C9_CoinAwardedOnce ==
    [][Ticked =>
        /\ \A c \in Range(coins) : c.collected => \A d \in Range(coins') : d.id # c.id
        /\ gameState'.coins
             = gameState.coins + 5 * Cardinality(ChestsTouched) + Cardinality(CoinsTaken)
        /\ gameState'.score
             = gameState.score + 1 + 50 * Cardinality(ChestsTouched)
               + 10 * Cardinality(CoinsTaken)
               + 25 * Cardinality({q \in PowerUpsTaken : q.type # "extra-life"})
               + 50 * Cardinality({q \in PowerUpsTaken : q.type = "extra-life"})
        /\ PickedCoins(coins', player) = {}]_vars

\* C9 witness: the latest tick collected a coin, which is marked in the store
C9_CoinCollected ==
    /\ ev.ticked
    /\ ev.coinPicks # {}
    /\ \E c \in Range(coins) : c.collected /\ c.id \in ev.coinPicks
    /\ gameState.coins >= 1

\* C10: a tick that collects n >= 1 extra-life power-ups leaves
\* min(lives after the tick's collisions + n, 5) lives and adds 50 score for
\* each; a power-up that is collected when a tick starts is gone from the
\* store after it, so its effect is applied once.
C10_ExtraLifeOnce ==
    [][Ticked =>
        LET taken == {q \in PowerUpsTaken : q.type = "extra-life"}
            hits == Cardinality(EnemiesTouched) + Cardinality(BananasTouched)
            left == IF gameState.lives - hits >= 1 THEN gameState.lives - hits ELSE 1
            n == Cardinality(taken)
        IN  /\ \A q \in Range(powerUps) :
                  q.collected => \A r \in Range(powerUps') : r.id # q.id
            /\ gameState'.lives
                 = (IF n = 0 THEN left ELSE IF left + n <= 5 THEN left + n ELSE 5)
            /\ gameState'.score
                 >= gameState.score + 1 + 50 * n]_vars

\* C10 witness: the latest tick collected an extra life with 5 lives already
\* (the cap), or with fewer (one more life)
C10_ExtraLifeTaken ==
    /\ ev.ticked
    /\ \E q \in Range(powerUps) :
          q.collected /\ q.type = "extra-life" /\ q.id \in ev.powerUpPicks
    /\ ev.damage = 0
    /\ gameState.lives = 5


\* The entries of a weight list that a draw (in thousandths) does not exceed
\* when the weights are accumulated in the list's order
Reached(weights, rand) ==
    {k \in 1..Len(weights) :
        rand * 1000 <= SumSeq([j \in 1..k |-> weights[j][2]])}

\* The weight a pattern gives a type, less the weight its base pattern gives it
Perturbation(pattern, type) ==
    LET base == CHOOSE b \in Range(LEVEL_PATTERNS) : b.name = pattern.name.base
        of(weights) == (CHOOSE w \in Range(weights) : w[1] = type)[2]
    IN  of(pattern.weights) - of(base.weights)

\* C11 (as the code has it): the selector returns the first type, in the
\* pattern's own key order, whose cumulative weight is >= the draw; when the
\* draw exceeds the total of the weights it returns "crab", the initial value
\* of selectedType, whatever the last type of the pattern is.
C11_SelectorFirstReachedOrCrab ==
    sel.called =>
        LET hit == Reached(sel.pattern.weights, sel.rand)
        IN  /\ sel.type \in ObstacleTypes
            /\ hit # {} =>
                 sel.type = sel.pattern.weights[CHOOSE k \in hit : \A h \in hit : k <= h][1]
            /\ hit = {} => sel.type = "crab"

\* C11 witness: a draw above the total of a pattern whose last type is not crab
C11_DrawAboveTotal ==
    /\ sel.called
    /\ Reached(sel.pattern.weights, sel.rand) = {}
    /\ sel.pattern.weights[Len(sel.pattern.weights)][1] # "crab"
    /\ sel.type = "crab"

\* C11 as stated: a draw above the total of the weights returns the last
\* enumerated type of the distribution.
C11_FallbackIsLastType ==
    sel.called =>
        (Reached(sel.pattern.weights, sel.rand) = {}
            => sel.type = sel.pattern.weights[Len(sel.pattern.weights)][1])

\* C12: the label the HUD shows is the name of the pattern the spawner uses,
\* and its base pattern is entry (levelSeed + floor(score / 500)) mod 6 of
\* LEVEL_PATTERNS; for seed 0 and score 0 it is "Crab Invasion".
C12_LabelIsSpawnerPattern ==
    sel.called =>
        /\ sel.label = sel.pattern.name
        /\ sel.label.base
             = LEVEL_PATTERNS[((sel.levelSeed + (sel.score \div 500)) % 6) + 1].name
        /\ \A i \in 1..Len(sel.pattern.weights) :
              sel.pattern.weights[i][1]
                = LEVEL_PATTERNS[((sel.levelSeed + (sel.score \div 500)) % 6) + 1].weights[i][1]
        /\ (sel.levelSeed = 0 /\ sel.score < 500) => sel.label.base = "Crab Invasion"

\* C12 witness: a call at score 500 or more whose base pattern is not the one
\* of the level seed alone
C12_PatternAdvanced ==
    /\ sel.called
    /\ sel.score >= 500
    /\ sel.label.base # LEVEL_PATTERNS[(sel.levelSeed % 6) + 1].name
    /\ sel.label = sel.pattern.name

\* C13 (as the code has it): for a fixed level seed the pattern changes only
\* when floor(score / 500) changes, and then the variant number and the weight
\* perturbation change with the base pattern: both are those of the seed
\* levelSeed + floor(score / 500).
C13_PatternOfSeedPlusProgress ==
    sel.called =>
        LET seed == sel.levelSeed + (sel.laterScore \div 500)
        IN  /\ (sel.laterScore \div 500 = sel.score \div 500) => sel.laterPattern = sel.pattern
            /\ sel.laterPattern.name.variant = seed % 10
            /\ \A i \in 1..Len(sel.laterPattern.weights) :
                  LET type == sel.laterPattern.weights[i][1]
                      adjusted == LEVEL_PATTERNS[(seed % 6) + 1].weights[i][2]
                                  + SinAdjust(seed, KeyLength(type))
                  IN  sel.laterPattern.weights[i][2]
                        = (IF adjusted >= 10000 THEN adjusted ELSE 10000)

\* C13 witness: two scores of one run on either side of a multiple of 500, with
\* different variant numbers
C13_VariantChanged ==
    /\ sel.called
    /\ sel.score \div 500 # sel.laterScore \div 500
    /\ sel.laterPattern.name.variant # sel.pattern.name.variant
    /\ Perturbation(sel.laterPattern, "crab") # Perturbation(sel.pattern, "crab")

\* C13 as stated: the variant number and the weight perturbation are the same
\* at every score of the run.
C13_VariantOfLevelSeedAlone ==
    sel.called =>
        /\ sel.laterPattern.name.variant = sel.pattern.name.variant
        /\ \A type \in ObstacleTypes :
              Perturbation(sel.laterPattern, type) = Perturbation(sel.pattern, type)



\* The step accepts a slide input: one more revert is pending
SlideAccepted == Len(slideTimers') = Len(slideTimers) + 1

\* The step runs the oldest pending slide revert
SlideReverted == Len(slideTimers') = Len(slideTimers) - 1

\* C14: the player becomes airborne only while isPlaying, with velocityY = -15;
\* no input changes velocityY while airborne; and the tick after an accepted
\* jump leaves velocityY = -14.2 and y above the ground (y < groundY).
C14_JumpTakesOff ==
    [][/\ (player'.isJumping /\ ~player.isJumping)
            => (gameState.isPlaying /\ player'.velocityY = JUMP_FORCE)
       /\ (player.isJumping /\ ~Ticked /\ runsStarted' = runsStarted)
            => (player'.velocityY = player.velocityY /\ player'.isJumping)
       /\ (Ticked /\ player.isJumping /\ player.velocityY = JUMP_FORCE)
            => (player'.velocityY = JUMP_FORCE + GRAVITY /\ player'.y < player'.groundY)]_vars

\* C15: a player that is not airborne is never above the ground; a tick whose
\* advanced y reaches or passes groundY clamps y to groundY, sets velocityY to
\* 0 and clears isJumping; any other tick advances y, adds GRAVITY and leaves
\* velocityY different from 0.
C15_GroundContact ==
    /\ [](~player.isJumping => player.y >= player.groundY)
    /\ [][Ticked =>
            LET newY == player.y + player.velocityY
            IN  IF newY >= player.groundY
                THEN /\ player'.y = player.groundY
                     /\ player'.velocityY = 0
                     /\ ~player'.isJumping
                ELSE /\ player'.y = newY
                     /\ player'.velocityY = player.velocityY + GRAVITY
                     /\ player'.velocityY # 0
                     /\ player'.isJumping = player.isJumping]_vars

\* C15 witness: a whole jump has come down: the latest tick brought the
\* airborne player back to the ground, with no slide in the behaviour
C15_Landed ==
    /\ ev.landed
    /\ slideEv.started = 0
    /\ animationFrame > 30
    /\ ~player.isJumping
    /\ player.y = player.groundY
    /\ player.velocityY = 0

\* C16: a slide input is accepted only while the player is not sliding; while
\* the player is sliding a revert is pending; a revert sets isSliding false,
\* height 32 and y = groundY whatever isPlaying and isPaused are; and the k-th
\* accepted slide is followed by the k-th revert.
C16_SlideReverts ==
    /\ [](player.isSliding => slideTimers # <<>>)
    /\ [][/\ SlideAccepted => (~player.isSliding /\ player'.isSliding)
          /\ SlideReverted => /\ ~player'.isSliding
                              /\ player'.height = Px(32)
                              /\ player'.y = player'.groundY]_vars
    /\ \A k \in 1..MaxSlides :
          (slideEv.started >= k) ~> (slideEv.started - Len(slideTimers) >= k)

\* C16 witness: a revert ran after the run had ended during the slide
C16_RevertedAfterRunEnd ==
    /\ slideEv.reverted
    /\ ~slideEv.isPlaying
    /\ slideEv.run = runsStarted
    /\ ~player.isSliding
    /\ player.height = Px(32)

\* C17: a tick that finds a grounded player sliding leaves the slide posture:
\* isSliding true, height 16 and y = groundY + 16.
C17_SlidePostureKept ==
    [][(Ticked /\ player.isSliding /\ ~player.isJumping)
          => /\ player'.isSliding
             /\ player'.height = Px(16)
             /\ player'.y = player'.groundY + Px(16)]_vars

\* C18: a slide revert scheduled in an earlier run leaves the player of the
\* current run as it is.
C18_StaleRevertInert ==
    [][(SlideReverted /\ Head(slideTimers).run < runsStarted) => player' = player]_vars



\* C19: a startGame step leaves no game-over timer pending, so a timer that is
\* pending while a run is on was armed in that run (lives <= 1): no timer of
\* an earlier run ends the new run or executes the run-end handler in it.
C19_StartGameCancelsTimer ==
    /\ [][runsStarted' = runsStarted + 1 => ~gameOverTimer'.pending]_vars
    /\ [](gameOverTimer.pending /\ gameState.isPlaying => gameState.lives <= 1)

\* C19 witness: the second run of a fresh profile is on and no timer is
\* pending, while the first run's timer never ran its handler (gamesPlayed was
\* counted by the ending tick alone): startGame found it pending
C19_RestartedWhilePending ==
    /\ runsStarted = 2
    /\ gameState.isPlaying
    /\ ~gameOverTimer.pending
    /\ playerProgress.gamesPlayed = 1

\* C20: once lives is 1 while isPlaying, the run eventually ends (isPlaying
\* becomes false) whether or not another tick executes, timers being served.
C20_GraceTimerExpires ==
    (gameState.isPlaying /\ gameState.lives <= 1) ~> ~gameState.isPlaying



---------------------------------------------------------------------------
(* Pause and score *)

\* The step is a call of startGame
Started == runsStarted' = runsStarted + 1

\* C21: from a state that is paused or not playing no step is a tick, and but
\* for startGame no step changes the score, the run's coins, the lives or an
\* entity store; the step that pauses or unpauses leaves the stores as they
\* are; and whenever the run is playing and not paused the tick is enabled
\* again (within the frames explored).
C21_PausedNothingTicks ==
    /\ [][(gameState.isPaused \/ ~gameState.isPlaying) =>
            /\ ~Ticked
            /\ ~Started =>
                  /\ UNCHANGED <<obstacles, coins, powerUps, projectiles>>
                  /\ gameState'.score = gameState.score
                  /\ gameState'.coins = gameState.coins
                  /\ gameState'.lives = gameState.lives]_vars
    /\ [][gameState'.isPaused # gameState.isPaused /\ ~Started =>
            UNCHANGED <<obstacles, coins, powerUps, projectiles>>]_vars
    /\ [](gameState.isPlaying /\ ~gameState.isPaused /\ animationFrame < MaxFrames
            => ENABLED gameLoop)

\* A run paused after a tick that left something in the stores
C21_PausedMidRun ==
    /\ gameState.isPlaying
    /\ gameState.isPaused
    /\ ev.ticked
    /\ obstacles # <<>>
    /\ coins # <<>> \/ powerUps # <<>> \/ projectiles # <<>>

\* C22: every tick raises the score by at least 1, by exactly 1 when the
\* tick picks nothing up, and but for startGame no step lowers the score.
C22_ScoreGrows ==
    /\ [][Ticked =>
            /\ gameState'.score >= gameState.score + 1
            /\ (ev'.chests = {} /\ ev'.coinPicks = {} /\ ev'.powerUpPicks = {})
                  => gameState'.score = gameState.score + 1]_vars
    /\ [][~Started => gameState'.score >= gameState.score]_vars

\* A tick with a pickup and a tick without one have both been counted
C22_TickWithPickup ==
    /\ ev.ticked
    /\ ev.coinPicks # {} \/ ev.chests # {} \/ ev.powerUpPicks # {}
    /\ gameState.score > animationFrame


---------------------------------------------------------------------------
(* The shop *)

\* The step is a call of the named shop handler
Called(op) == shop' # shop /\ shop'.op = op

\* The upgrade of the profile with the given id
UpgradeOf(progress, id) == progress.shipUpgrades[FindById(progress.shipUpgrades, id)]

\* The outfit of the profile with the given id
OutfitOf(progress, id) == progress.pirateOutfits[FindById(progress.pirateOutfits, id)]

\* The profile with the coins and the level of one upgrade blanked
ButUpgrade(progress, id) ==
    [progress EXCEPT !.totalCoins = 0,
                     !.shipUpgrades[FindById(progress.shipUpgrades, id)].currentLevel = 0]

\* The profile with the coins and the lock of one outfit blanked
ButOutfit(progress, id) ==
    [progress EXCEPT !.totalCoins = 0,
                     !.pirateOutfits[FindById(progress.pirateOutfits, id)].unlocked = TRUE]

\* C23: a call of purchaseUpgrade leaves the profile as it is when the id is
\* unknown, the upgrade is at maxLevel or totalCoins < cost * (currentLevel +
\* 1); otherwise it takes exactly cost * (currentLevel + 1) from totalCoins,
\* raises that upgrade's currentLevel by 1 and changes nothing else.
C23_PurchaseUpgradeOrNothing ==
    [][Called("purchaseUpgrade") =>
        LET id == shop'.id
            known == FindById(playerProgress.shipUpgrades, id) # 0
            upgrade == UpgradeOf(playerProgress, id)
            cost == upgrade.cost * (upgrade.currentLevel + 1)
        IN  IF ~known \/ upgrade.currentLevel >= upgrade.maxLevel
               \/ playerProgress.totalCoins < cost
            THEN playerProgress' = playerProgress
            ELSE /\ playerProgress'.totalCoins = playerProgress.totalCoins - cost
                 /\ UpgradeOf(playerProgress', id).currentLevel = upgrade.currentLevel + 1
                 /\ ButUpgrade(playerProgress', id) = ButUpgrade(playerProgress, id)]_vars

\* The compass was bought to its last level in this session, and the latest
\* call asked for an upgrade the coins left do not pay; the profile is as
\* before
C23_RefusedAfterPurchase ==
    /\ shop.op = "purchaseUpgrade"
    /\ shop.id = "crew"
    /\ shop.prev = playerProgress
    /\ UpgradeOf(playerProgress, "compass").currentLevel = 3
    /\ UpgradeOf(playerProgress, "crew").currentLevel = 0
    /\ playerProgress.totalCoins < 150

\* C24: every upgrade's currentLevel is within 0..maxLevel and totalCoins is
\* not negative, whatever was bought and however the runs ended.
C24_LevelsAndCoinsInRange ==
    /\ playerProgress.totalCoins >= 0
    /\ \A i \in 1..Len(playerProgress.shipUpgrades) :
          /\ playerProgress.shipUpgrades[i].currentLevel >= 0
          /\ playerProgress.shipUpgrades[i].currentLevel
                <= playerProgress.shipUpgrades[i].maxLevel

\* Upgrades and an outfit were bought until no coin pays anything more, and
\* a run has ended since the last purchase
C24_SpentAndPlayed ==
    /\ UpgradeOf(playerProgress, "compass").currentLevel = 3
    /\ UpgradeOf(playerProgress, "sails").currentLevel = 3
    /\ OutfitOf(playerProgress, "fancy").unlocked
    /\ playerProgress.totalCoins < 50
    /\ playerProgress.gamesPlayed > shop.prev.gamesPlayed
    /\ ~gameState.isPlaying

\* C25: a call of purchaseOutfit takes the cost and sets unlocked only when
\* the outfit exists, is locked and totalCoins >= cost, and leaves the
\* profile as it is otherwise; no step locks an unlocked outfit, and a call
\* for an unlocked outfit takes no coins.
C25_OutfitPaidOnce ==
    /\ [][Called("purchaseOutfit") =>
            LET id == shop'.id
                known == FindById(playerProgress.pirateOutfits, id) # 0
                outfit == OutfitOf(playerProgress, id)
            IN  IF ~known \/ outfit.unlocked \/ playerProgress.totalCoins < outfit.cost
                THEN playerProgress' = playerProgress
                ELSE /\ playerProgress'.totalCoins = playerProgress.totalCoins - outfit.cost
                     /\ OutfitOf(playerProgress', id).unlocked
                     /\ ButOutfit(playerProgress', id) = ButOutfit(playerProgress, id)]_vars
    /\ [][\A i \in 1..Len(playerProgress.pirateOutfits) :
            playerProgress.pirateOutfits[i].unlocked =>
                /\ Len(playerProgress'.pirateOutfits) >= i
                /\ playerProgress'.pirateOutfits[i].id = playerProgress.pirateOutfits[i].id
                /\ playerProgress'.pirateOutfits[i].unlocked]_vars

\* The latest call asked again for an outfit bought in this session, with
\* coins in hand that would pay it once more
C25_AskedTwice ==
    /\ shop.op = "purchaseOutfit"
    /\ shop.id = "fancy"
    /\ OutfitOf(shop.prev, "fancy").unlocked
    /\ shop.prev.totalCoins >= 100
    /\ playerProgress.totalCoins = shop.prev.totalCoins


---------------------------------------------------------------------------
(* Persistence *)

\* C26: the stored item is the text of the latest profile, whichever handler
\* changed it last, and loading that item on the day of its
\* lastChallengeReset mounts the component with a profile equal to the saved
\* one, under either of two shuffles the load could draw.
C26_SavedThenLoadedEqual ==
    /\ storage = JSON_stringify(playerProgress)
    /\ JSON_parse(storage).value = playerProgress
    /\ \A pick \in {<<1, 2, 3>>, <<5, 4, 3>>} :
          LET loaded == initialProgress(storage, playerProgress.lastChallengeReset, pick)
          IN  loaded.outcome = "mounted" /\ loaded.progress = playerProgress

\* An outfit was bought and a run has ended since: the profile was written
\* twice, and the item holds the later one
C26_WrittenTwice ==
    /\ shop.op = "purchaseOutfit"
    /\ ~OutfitOf(shop.prev, "fancy").unlocked
    /\ OutfitOf(playerProgress, "fancy").unlocked
    /\ playerProgress.gamesPlayed > shop.prev.gamesPlayed
    /\ JSON_parse(storage).value = playerProgress


\* The page load found a text that parses to an object
LoadedObject == boot.called /\ boot.item.kind = "object"

\* What the text of the page load parses to, and the profile it mounted with
StoredObject == JSON_parse(boot.item).value

LoadedProgress == boot.result.progress

\* C27: a page load that finds no item, a text that does not parse, or an
\* object without the upgrade list mounts the component with the fresh
\* default profile.
C27_MalformedMeansDefault ==
    (boot.called /\ (boot.item.kind # "object" \/ "shipUpgrades" \notin DOMAIN StoredObject))
        => /\ boot.result.outcome = "mounted"
           /\ LoadedProgress = DefaultProgressOn(boot.pick, boot.today)

\* The object has the key and v under it
Holds(obj, k, v) == k \in DOMAIN obj /\ obj[k] = v

\* C28: a page load of a stored profile with its upgrade list sets an absent
\* outfit list to the default outfits with "default" selected, an absent
\* reset date to today with a fresh challenge set, absent totalEnemiesDefeated
\* and totalSurvivalTime to 0, and keeps totalCoins, shipUpgrades, gamesPlayed
\* and bestScore, as well as every newer field the text had.
C28_BackFilled ==
    (LoadedObject /\ "shipUpgrades" \in DOMAIN StoredObject) =>
        /\ boot.result.outcome = "mounted"
        /\ IF "pirateOutfits" \in DOMAIN StoredObject
           THEN /\ Holds(LoadedProgress, "pirateOutfits", StoredObject["pirateOutfits"])
                /\ "selectedOutfit" \in DOMAIN StoredObject =>
                      Holds(LoadedProgress, "selectedOutfit", StoredObject["selectedOutfit"])
           ELSE /\ Holds(LoadedProgress, "pirateOutfits", generatePirateOutfits)
                /\ Holds(LoadedProgress, "selectedOutfit", "default")
        /\ "lastChallengeReset" \notin DOMAIN StoredObject =>
              /\ Holds(LoadedProgress, "lastChallengeReset", boot.today)
              /\ Holds(LoadedProgress, "dailyChallenges", generateDailyChallenges(boot.pick))
        /\ \A k \in {"totalEnemiesDefeated", "totalSurvivalTime"} :
              Holds(LoadedProgress, k, IF k \in DOMAIN StoredObject THEN StoredObject[k] ELSE 0)
        /\ \A k \in {"totalCoins", "shipUpgrades", "gamesPlayed", "bestScore"} :
              Holds(LoadedProgress, k, StoredObject[k])

\* A profile with coins, upgrades and played games but none of the newer
\* fields was loaded
C28_OldProfileLoaded ==
    /\ LoadedObject
    /\ DOMAIN StoredObject \cap NewerFields = {}
    /\ StoredObject["totalCoins"] > 0
    /\ \E i \in 1..Len(StoredObject["shipUpgrades"]) :
          StoredObject["shipUpgrades"][i].currentLevel > 0
    /\ boot.result.outcome = "mounted"
    /\ DOMAIN LoadedProgress = Range(ProfileKeys)

\* C29: a page load of a stored profile keeps the stored challenges when the
\* stored lastChallengeReset is today's date; otherwise it puts three
\* challenges with distinct ids of the pool of five, progress 0 and completed
\* false, in their place; either way lastChallengeReset is today's date.
C29_ResetOnNewDay ==
    (LoadedObject /\ "shipUpgrades" \in DOMAIN StoredObject) =>
        /\ Holds(LoadedProgress, "lastChallengeReset", boot.today)
        /\ IF Holds(StoredObject, "lastChallengeReset", boot.today)
           THEN Holds(LoadedProgress, "dailyChallenges", StoredObject["dailyChallenges"])
           ELSE LET fresh == LoadedProgress["dailyChallenges"]
                IN  /\ Len(fresh) = 3
                    /\ \A i, j \in 1..3 : i # j => fresh[i].id # fresh[j].id
                    /\ \A i \in 1..3 :
                          /\ \E n \in 1..Len(ChallengePool) :
                                /\ fresh[i].id = ChallengePool[n].id
                                /\ fresh[i].target = ChallengePool[n].target
                                /\ fresh[i].type = ChallengePool[n].type
                                /\ fresh[i].reward = ChallengePool[n].reward
                          /\ fresh[i].progress = 0
                          /\ ~fresh[i].completed

\* Challenges with progress, saved yesterday, were loaded today
C29_LoadedNextDay ==
    /\ LoadedObject
    /\ "lastChallengeReset" \in DOMAIN StoredObject
    /\ StoredObject["lastChallengeReset"] = Yesterday
    /\ boot.today = Today
    /\ \E i \in 1..3 : StoredObject["dailyChallenges"][i].progress > 0
    /\ boot.result.outcome = "mounted"
    /\ LoadedProgress["dailyChallenges"] # StoredObject["dailyChallenges"]


---------------------------------------------------------------------------
(* Coin magnet *)

\* The offsets of the player's centre from the coin's, in hundredths of a pixel
CentreDx(pl, coin) == pl.x + pl.width \div 2 - (coin.x + coin.width \div 2)

CentreDy(pl, coin) == pl.y + pl.height \div 2 - (coin.y + coin.height \div 2)

\* The centre distance is below, or above, r pixels
Nearer(pl, coin, r) ==
    /\ Abs(CentreDx(pl, coin)) < Px(r)
    /\ Abs(CentreDy(pl, coin)) < Px(r)
    /\ CentreDx(pl, coin) * CentreDx(pl, coin) + CentreDy(pl, coin) * CentreDy(pl, coin)
          < Px(r) * Px(r)

Farther(pl, coin, r) ==
    \/ Abs(CentreDx(pl, coin)) > Px(r)
    \/ Abs(CentreDy(pl, coin)) > Px(r)
    \/ CentreDx(pl, coin) * CentreDx(pl, coin) + CentreDy(pl, coin) * CentreDy(pl, coin)
          > Px(r) * Px(r)

\* C30: the coin update moves a coin whose centre distance d from the
\* player's has 20 < d < 50 + coinMagnetRange by 3% of the centre-to-centre
\* vector of before the update and by -gameSpeed in x; any other coin by
\* -gameSpeed in x alone.
C30_PulledInsideBandOnly ==
    pull.called =>
        /\ Len(pull.moved) = 1
        /\ IF /\ Farther(pull.player, pull.coin, 20)
              /\ Nearer(pull.player, pull.coin, 50 + pull.coinMagnetRange)
           THEN /\ pull.moved[1].x = pull.coin.x
                                     + (3 * CentreDx(pull.player, pull.coin)) \div 100
                                     - pull.gameSpeed
                /\ pull.moved[1].y = pull.coin.y
                                     + (3 * CentreDy(pull.player, pull.coin)) \div 100
           ELSE /\ pull.moved[1].x = pull.coin.x - pull.gameSpeed
                /\ pull.moved[1].y = pull.coin.y

\* A coin above and to the right of the player in the air, inside the band
\* that the compass's second level opens, was pulled down and to the left
C30_PulledByBoostedRange ==
    /\ pull.called
    /\ pull.coinMagnetRange = 40
    /\ pull.player.isJumping
    /\ Farther(pull.player, pull.coin, 50)
    /\ Nearer(pull.player, pull.coin, 90)
    /\ pull.moved[1].y > pull.coin.y
    /\ pull.moved[1].x < pull.coin.x - pull.gameSpeed

\* The obstacle store of the closure after the move and the cull of the first
\* updater (1352-1384), before the spawn
ScrolledObstacles ==
    LET moved == [i \in 1..Len(obstacles) |->
                    MoveObstacle(obstacles[i], gameState.gameSpeed, animationFrame)]
        OnScreen(o) == o.x > -o.width
    IN  SelectSeq(moved, OnScreen)

\* The obstacles of the next store that the step created
FreshObstacles == {o \in Range(obstacles') : o.id = animationFrame /\ o.gen = 0}

\* C31: on every viewport width a tick spawns an obstacle exactly when the
\* culled store is empty or its last obstacle has x < viewport width - 200,
\* one at most, and the new obstacle is placed at or beyond that threshold.
C31_SpawnAtViewportThreshold ==
    [][Ticked =>
        /\ Len(obstacles') <= Len(ScrolledObstacles) + 1
        /\ FreshObstacles # {}
             <=> \/ ScrolledObstacles = <<>>
                 \/ ScrolledObstacles[Len(ScrolledObstacles)].x < Px(canvasSize - 200)
        /\ \A o \in FreshObstacles : o.x >= Px(canvasSize - 200)]_vars

\* The number of callbacks waiting for the next frame
FramesPending ==
    (IF frameRequests.held THEN 1 ELSE 0) + frameRequests.orphans

\* C32: at most one tick is scheduled at any time, the scheduled one is the
\* one whose handle the component holds (every earlier one was cancelled
\* before it was requested), and none is pending while the game is paused or
\* not playing.
C32_OneFramePending ==
    /\ FramesPending <= 1
    /\ frameRequests.orphans = 0
    /\ FramesPending > 0 => gameState.isPlaying /\ ~gameState.isPaused

\* C32 witness: a frame is pending after two ticks and a jump input, each of
\* which made the effect cancel the request before and place a new one
C32_RequestedAnew ==
    /\ frameRequests.held
    /\ animationFrame >= 2
    /\ player.isJumping
    /\ player.velocityY = JUMP_FORCE

\* The level of an upgrade of the profile
LevelOf(progress, id) == UpgradeOf(progress, id).currentLevel

\* C33: startGame rebuilds the session from the profile: playing, not paused,
\* score and run coins 0, lives = max(1, 3 + hull level + crew level),
\* gameSpeed = base speed * (1 + 0.2 * sails level) >= base speed, the four
\* stores empty, the player standing on the ground; the profile is untouched.
C33_StartGameRebuilds ==
    [][Started =>
        /\ gameState'.isPlaying /\ ~gameState'.isPaused
        /\ gameState'.score = 0 /\ gameState'.coins = 0
        /\ gameState'.lives = Max(1, 3 + LevelOf(playerProgress, "hull")
                                       + LevelOf(playerProgress, "crew"))
        /\ gameState'.gameSpeed
             = (baseSpeed * (1000 + 200 * LevelOf(playerProgress, "sails"))) \div 1000
        /\ gameState'.gameSpeed >= baseSpeed
        /\ gameState'.shipBoosts.coinMagnetRange = 20 * LevelOf(playerProgress, "compass")
        /\ obstacles' = <<>> /\ coins' = <<>> /\ powerUps' = <<>> /\ projectiles' = <<>>
        /\ player'.y = player'.groundY /\ player'.y = Px(300) /\ player'.height = Px(32)
        /\ player'.velocityY = 0 /\ ~player'.isJumping /\ ~player'.isSliding
        /\ playerProgress' = playerProgress]_vars

\* C33 witness: a second run was started after the hull upgrade was bought and
\* a run of three ticks or more had ended: it has 4 lives and empty stores
C33_RestartedWithHull ==
    /\ runsStarted = 2
    /\ animationFrame >= 3
    /\ gameState.isPlaying
    /\ gameState.lives = 4
    /\ LevelOf(playerProgress, "hull") = 1
    /\ obstacles = <<>>
    /\ ~ev.ticked

\* The extra-life power-ups the tick marks collected
LivesTaken == {q \in PowerUpsTaken : q.type = "extra-life"}

\* C34: a tick that collects an extra-life power-up and resolves no collision
\* does not decrease lives, whatever number of lives the run started with.
C34_ExtraLifeNeverLowersLives ==
    [][Ticked /\ LivesTaken # {} /\ ev'.damage = 0
         => gameState'.lives >= gameState.lives]_vars

\* C35: a tick decreases lives by at most 1, however many obstacles and
\* projectiles overlap the player in it.
C35_OneLifePerTick ==
    [][Ticked => gameState'.lives >= gameState.lives - 1]_vars

\* The player's vertical motion and posture
Posture(pl) == <<pl.velocityY, pl.isJumping, pl.isSliding, pl.height, pl.y>>

\* C36: while the game is paused the player's inputs have no effect: a step
\* taken with isPaused true that is no revert of an earlier slide (an input,
\* that is) leaves velocityY, isJumping, isSliding, height and y as they are.
C36_PausedInputsInert ==
    [][gameState.isPaused /\ gameState'.isPaused /\ Len(slideTimers') >= Len(slideTimers)
         => Posture(player') = Posture(player)]_vars

\* C37: a slide input and a slide revert never move an airborne player
\* vertically: when isJumping is true, the step that starts a slide and the
\* step in which a revert fires leave the player's y as it is.
C37_AirborneSlideKeepsHeight ==
    [][player.isJumping /\ (SlideAccepted \/ SlideReverted) => player'.y = player.y]_vars

\* C38: after any purchases and selections of outfits selectedOutfit is the id
\* of an outfit of pirateOutfits whose unlocked flag is true.
C38_SelectedOutfitUnlocked ==
    \E i \in 1..Len(playerProgress.pirateOutfits) :
        /\ playerProgress.pirateOutfits[i].id = playerProgress.selectedOutfit
        /\ playerProgress.pirateOutfits[i].unlocked

\* C38 witness: the fancy and the ghost outfit were bought, the ghost outfit
\* was selected last, and the royal outfit is still locked
C38_GhostSelected ==
    /\ shop.op = "selectOutfit"
    /\ shop.id = "ghost"
    /\ playerProgress.selectedOutfit = "ghost"
    /\ OutfitOf(playerProgress, "fancy").unlocked
    /\ ~OutfitOf(playerProgress, "royal").unlocked

\* The "enemies" challenges of a profile, as they stand
EnemiesChallenges(progress) ==
    {c \in Range(progress.dailyChallenges) : c.type = "enemies"}

\* C39: no step changes totalEnemiesDefeated or an "enemies" challenge: its
\* progress and its completed flag stay as they were loaded, run after run.
C39_EnemiesNeverCounted ==
    [][/\ playerProgress'.totalEnemiesDefeated = playerProgress.totalEnemiesDefeated
       /\ EnemiesChallenges(playerProgress') = EnemiesChallenges(playerProgress)]_vars

\* C39 witness: a run that took damage from crabs has ended and added to the
\* "score" challenge, and the "enemies" challenge stands at 0
C39_RunEndedEnemiesAtZero ==
    /\ playerProgress.gamesPlayed > 60
    /\ ev.ticked /\ ev.damage > 0
    /\ ~gameState.isPlaying
    /\ ~gameOverTimer.pending
    /\ \E c \in Range(playerProgress.dailyChallenges) : c.type = "score" /\ c.progress > 0
    /\ \E c \in EnemiesChallenges(playerProgress) : c.progress = 0 /\ ~c.completed
    /\ playerProgress.totalEnemiesDefeated = 0

=============================================================================
